---- MODULE Spec2Model ----
(***************************************************************************)
(* FAIR risk calculator (fair_risk_calculator.py): scenario validation,    *)
(* the process-wide numpy random generator, PERT / triangular sampling,    *)
(* the FAIR arithmetic and the per-calculator result cache.                *)
(* With it: the entry points of the quick tool (quick_risk_analysis.py)    *)
(* and of the dashboard (fair_risk_app.py) with the dashboard's session,   *)
(* and the integrity tools' manifest and verification of monitored files.  *)
(*                                                                         *)
(* Numbers.  TEF estimates are integers, loss estimates are integers in    *)
(* units of one million dollars, and a vulnerability v stands for          *)
(* v / VulnDen, so the probability 1 is VulnDen.  A sample is a number in   *)
(* the unit of its estimate; lef and ale samples are in units of 1/VulnDen. *)
(* A variate on the unit interval is k / Res with k in 0..Res; rescaling it *)
(* to [low, high] rounds down to the unit, as floating point rounds to its  *)
(* precision.  Statistics are exact rationals, held as numerators.          *)
(* Where the rounding of float64 sums decides a statement, NpMean,          *)
(* NpVariance and NpCvar compute the same statistics in a floating point    *)
(* of MantBits significant bits, summing in numpy's pairwise order.         *)
(* Arrays.  The generator has RngPeriod states, so every array drawn from  *)
(* it is periodic.  A numpy array of n elements is the record              *)
(*   [size |-> n, cyc |-> <<c_1 .. c_RngPeriod>>]                          *)
(* whose element i (0-based) is cyc[(i % RngPeriod) + 1].  Every array of  *)
(* a simulation has size >= RngPeriod, so two records are equal exactly    *)
(* when the arrays are equal element by element; a shorter array comes     *)
(* only from a direct call of a sampler and is read on its own indices.    *)
(***************************************************************************)
EXTENDS Integers, Sequences, FiniteSets, TLC

VARIABLES
    rng,     \* state of the process-wide generator np.random
    calcs,   \* the FAIRRiskCalculator instances: NoCalc, or the instance's fields
    hist,    \* per instance, for stating the claims: its seed and what happened since
    prov,    \* per instance and cached result, for stating the claims: how the run began
    last,    \* the most recent call: its arguments and its outcome
    integ,   \* the integrity tools: the monitored files, the manifest, the verifier
    session  \* the dashboard's st.session_state

vars == <<rng, calcs, hist, prov, last, integ, session>>

----------------------------------------------------------------------------
(* Bounds of the model *)

RngPeriod == 7     \* number of generator states
RngRes == 2        \* a raw generator output is one of 0..RngRes, standing for k / RngRes
MaxSeed == 1       \* seeds 0..MaxSeed
MaxScenarios == 2  \* scenarios stored per calculator
MaxVal == 1        \* validation inputs range over -1..MaxVal
VulnDen == 2       \* a vulnerability v stands for v / VulnDen; inputs range over -1..VulnDen+1
MaxRuns == 2       \* run_simulation / run_all_scenarios calls per calculator

(* Program constants *)

MinIterations == 1000
MaxIterations == 1000000
DefaultIterations == 10000
LambdaParam == 4
OneMillion == 1    \* the thresholds 1000000, 5000000, 10000000 in millions of dollars
FiveMillion == 5
TenMillion == 10
NoSeed == -1       \* random_seed = None

Res == 2 * RngRes  \* denominator of a variate on the unit interval

CalcIds == {"calc1", "calc2"}
ScenarioIds == {"S1", "S2"}
NoCalc == [iterations |-> 0, scenarios |-> <<>>, simulation_results |-> <<>>, live |-> FALSE]

----------------------------------------------------------------------------
(* numpy arrays *)

Idx == 1..RngPeriod

\* an array filled with the wrong value
FullPlusOne(size, v) == [size |-> size, cyc |-> [j \in Idx |-> v + 1]]
\* np.full(size, v)
Full(size, v) == [size |-> size, cyc |-> [j \in Idx |-> v]]

\* element i, 0 <= i < a.size
At(a, i) == a.cyc[(i % RngPeriod) + 1]

\* a * b, elementwise
MulBad(a, b) == [size |-> a.size, cyc |-> [j \in Idx |-> a.cyc[j] + b.cyc[j]]]
Mul(a, b) == [size |-> a.size, cyc |-> [j \in Idx |-> a.cyc[j] * b.cyc[j]]]

\* a rescaling that takes the variates for multiples of the whole width
RescaleOver(a, low, high) ==
    [size |-> a.size, cyc |-> [j \in Idx |-> low + a.cyc[j] * (high - low)]]
\* low + a * (high - low), for an array a of variates in units of 1/Res
Rescale(a, low, high) ==
    [size |-> a.size, cyc |-> [j \in Idx |-> low + (a.cyc[j] * (high - low)) \div Res]]

----------------------------------------------------------------------------
(* The process-wide generator.  It is a counter: a draw of n values reads   *)
(* the states g, g+1, .., g+n-1 and leaves the generator at g+n.            *)

\* np.random.seed(seed)
SeedState(seed) == seed % RngPeriod

\* the generator after n values were drawn from state g
Advance(g, n) == (g + n) % RngPeriod

\* the raw output at state g, in 0..RngRes (k stands for k / RngRes)
Raw(g) == g % (RngRes + 1)

\* the n raw outputs drawn from state g, as an array
RawArray(g, n) == [size |-> n, cyc |-> [j \in Idx |-> Raw((g + j - 1) % RngPeriod)]]

\* one Beta(alpha, beta) variate in [0, 1] (units of 1/Res) from the raw output k;
\* alpha = aNum / den and beta = bNum / den
BetaVariate(k, aNum, bNum) ==
    IF aNum > bNum THEN k + RngRes
    ELSE IF aNum < bNum THEN k
    ELSE 2 * k

\* np.random.beta(alpha, beta, size) at generator state g
NpBeta(g, aNum, bNum, size) ==
    [size |-> size,
     cyc |-> [j \in Idx |-> BetaVariate(RawArray(g, size).cyc[j], aNum, bNum)]]

\* one triangular variate on the unit interval (units of 1/Res) from the raw output k
TriVariate(k, left, mode, right) ==
    IF mode = right THEN k + RngRes
    ELSE IF mode = left THEN k
    ELSE 2 * k

\* np.random.triangular(left, mode, right, size) at generator state g;
\* numpy raises ValueError for left > mode, mode > right and left == right
NpTriangularFails(left, mode, right) == left > mode \/ mode > right \/ left = right

NpTriangular(g, left, mode, right, size) ==
    Rescale([size |-> size,
             cyc |-> [j \in Idx |-> TriVariate(RawArray(g, size).cyc[j], left, mode, right)]],
            left, right)

----------------------------------------------------------------------------
(* add_scenario: validation *)

\* the arguments of one add_scenario call
Input(id, descr, tl, tm, th, vl, vm, vh, ll, lm, lh) ==
    [scenario_id |-> id, description |-> descr,
     tef_low |-> tl, tef_medium |-> tm, tef_high |-> th,
     vuln_low |-> vl, vuln_medium |-> vm, vuln_high |-> vh,
     loss_low |-> ll, loss_medium |-> lm, loss_high |-> lh]

Ascending(low, medium, high) == low <= medium /\ medium <= high

InUnit(v) == 0 <= v /\ v <= VulnDen

\* the list validation_errors, one tag per message, in the order the checks append them
ValidationErrorsNoRange(in) ==
    (IF ~Ascending(in.tef_low, in.tef_medium, in.tef_high) THEN <<"TEF_ORDER">> ELSE <<>>)
    \o (IF ~Ascending(in.vuln_low, in.vuln_medium, in.vuln_high) THEN <<"VULN_ORDER">> ELSE <<>>)
    \o (IF ~Ascending(in.loss_low, in.loss_medium, in.loss_high) THEN <<"LOSS_ORDER">> ELSE <<>>)
    \o (IF in.tef_low < 0 \/ in.tef_medium < 0 \/ in.tef_high < 0
        THEN <<"TEF_NEGATIVE">> ELSE <<>>)
    \o (IF in.loss_low < 0 \/ in.loss_medium < 0 \/ in.loss_high < 0
        THEN <<"LOSS_NEGATIVE">> ELSE <<>>)

\* a validator that stops at the first failed check
ValidationErrorsFirstOnly(in) ==
    IF ~Ascending(in.tef_low, in.tef_medium, in.tef_high) THEN <<"TEF_ORDER">>
    ELSE IF ~Ascending(in.vuln_low, in.vuln_medium, in.vuln_high) THEN <<"VULN_ORDER">>
    ELSE IF ~(InUnit(in.vuln_low) /\ InUnit(in.vuln_medium) /\ InUnit(in.vuln_high))
         THEN <<"VULN_RANGE">>
    ELSE IF ~Ascending(in.loss_low, in.loss_medium, in.loss_high) THEN <<"LOSS_ORDER">>
    ELSE IF in.tef_low < 0 \/ in.tef_medium < 0 \/ in.tef_high < 0 THEN <<"TEF_NEGATIVE">>
    ELSE IF in.loss_low < 0 \/ in.loss_medium < 0 \/ in.loss_high < 0 THEN <<"LOSS_NEGATIVE">>
    ELSE <<>>

ValidationErrors(in) ==
    (IF ~Ascending(in.tef_low, in.tef_medium, in.tef_high) THEN <<"TEF_ORDER">> ELSE <<>>)
    \o (IF ~Ascending(in.vuln_low, in.vuln_medium, in.vuln_high) THEN <<"VULN_ORDER">> ELSE <<>>)
    \o (IF ~(InUnit(in.vuln_low) /\ InUnit(in.vuln_medium) /\ InUnit(in.vuln_high))
        THEN <<"VULN_RANGE">> ELSE <<>>)
    \o (IF ~Ascending(in.loss_low, in.loss_medium, in.loss_high) THEN <<"LOSS_ORDER">> ELSE <<>>)
    \o (IF in.tef_low < 0 \/ in.tef_medium < 0 \/ in.tef_high < 0
        THEN <<"TEF_NEGATIVE">> ELSE <<>>)
    \o (IF in.loss_low < 0 \/ in.loss_medium < 0 \/ in.loss_high < 0
        THEN <<"LOSS_NEGATIVE">> ELSE <<>>)

MakeScenarioSwapped(in) ==
    [id |-> in.scenario_id, description |-> in.description,
     tef |-> [low |-> in.tef_high, medium |-> in.tef_medium, high |-> in.tef_low],
     vulnerability |-> [low |-> in.vuln_low, medium |-> in.vuln_medium, high |-> in.vuln_high],
     loss_magnitude |-> [low |-> in.loss_low, medium |-> in.loss_medium, high |-> in.loss_high]]

\* the scenario dict add_scenario builds (asset, threat_actor, loss_effect and notes are
\* free text that no computation reads)
MakeScenario(in) ==
    [id |-> in.scenario_id, description |-> in.description,
     tef |-> [low |-> in.tef_low, medium |-> in.tef_medium, high |-> in.tef_high],
     vulnerability |-> [low |-> in.vuln_low, medium |-> in.vuln_medium, high |-> in.vuln_high],
     loss_magnitude |-> [low |-> in.loss_low, medium |-> in.loss_medium, high |-> in.loss_high]]

----------------------------------------------------------------------------
(* The samplers.  A sampler call at generator state g yields                *)
(*   [err, arr, g, drawn]: the error raised ("" for none), the array        *)
(*   returned, the generator state left behind, and how many values were    *)
(*   drawn from the generator.                                              *)

NoArray == [size |-> 0, cyc |-> [j \in Idx |-> 0]]

\* alpha and beta as numerators over the denominator high - low
AlphaNum(low, medium, high) == (high - low) + LambdaParam * (medium - low)
BetaNum(low, medium, high) == (high - low) + LambdaParam * (high - medium)

_pert_distribution(g, low, medium, high, size) ==
    IF ~(low <= medium /\ medium <= high)
    THEN [err |-> "PERT distribution requires low <= medium <= high",
          arr |-> NoArray, g |-> g, drawn |-> 0]
    ELSE IF high = low
    THEN [err |-> "", arr |-> Full(size, medium), g |-> g, drawn |-> 0]
    ELSE [err |-> "",
          arr |-> Rescale(NpBeta(g, AlphaNum(low, medium, high),
                                 BetaNum(low, medium, high), size), low, high),
          g |-> Advance(g, size), drawn |-> size]

\* a triangular sampler without the precondition check
_triangular_unchecked(g, low, medium, high, size) ==
    [err |-> "", arr |-> NpTriangular(g, low, medium, high, size),
     g |-> Advance(g, size), drawn |-> size]

_triangular_distribution(g, low, medium, high, size) ==
    IF ~(low <= medium /\ medium <= high)
    THEN [err |-> "Triangular distribution requires low <= medium <= high",
          arr |-> NoArray, g |-> g, drawn |-> 0]
    ELSE IF NpTriangularFails(low, medium, high)
    THEN [err |-> "left == right", arr |-> NoArray, g |-> g, drawn |-> 0]
    ELSE [err |-> "", arr |-> NpTriangular(g, low, medium, high, size),
          g |-> Advance(g, size), drawn |-> size]

----------------------------------------------------------------------------
(* Statistics of an array.  Rationals are records [num, den].               *)

\* how many of the indices 0..n-1 fall on position j of the cycle
Count(n, j) == (n \div RngPeriod) + (IF j <= n % RngPeriod THEN 1 ELSE 0)

RECURSIVE WeightedSum(_, _, _)
\* the sum over the cycle positions 1..j of w[position] times the position's count
WeightedSum(n, w, j) ==
    IF j = 0 THEN 0 ELSE Count(n, j) * w[j] + WeightedSum(n, w, j - 1)

\* np.sum(a)
ArraySum(a) == WeightedSum(a.size, a.cyc, RngPeriod)

\* np.sum(a <cond>) for a condition given as the set of values that satisfy it
CountIn(a, S) ==
    WeightedSum(a.size, [j \in Idx |-> IF a.cyc[j] \in S THEN 1 ELSE 0], RngPeriod)

\* np.sum(a[a <cond>])
SumIn(a, S) ==
    WeightedSum(a.size, [j \in Idx |-> IF a.cyc[j] \in S THEN a.cyc[j] ELSE 0], RngPeriod)

\* the values that occur in a
Values(a) == {a.cyc[j] : j \in {i \in Idx : Count(a.size, i) > 0}}

RECURSIVE Ascend(_)
\* the elements of a finite set of numbers in ascending order
Ascend(S) ==
    IF S = {} THEN <<>>
    ELSE LET m == CHOOSE x \in S : \A y \in S : x <= y
         IN  <<m>> \o Ascend(S \ {m})

\* np.sort(a), run-length encoded: the distinct values in ascending order, each with
\* the number of elements that are <= it
Sort(a) ==
    LET vals == Ascend(Values(a))
    IN  [size |-> a.size,
         runs |-> [i \in 1..Len(vals) |->
                      [value |-> vals[i],
                       upto |-> CountIn(a, {w \in Values(a) : w <= vals[i]})]]]

\* element k (0-based) of a sorted array
SortedAt(s, k) ==
    LET i == CHOOSE x \in 1..Len(s.runs) :
                 s.runs[x].upto > k /\ (x = 1 \/ s.runs[x - 1].upto <= k)
    IN  s.runs[i].value

\* np.percentile(a, q) of the sorted array s, linear interpolation, as a numerator over 100
Percentile(s, q) ==
    LET h == (s.size - 1) * q
        lo == h \div 100
        hi == IF lo + 1 < s.size THEN lo + 1 ELSE lo
    IN  SortedAt(s, lo) * 100 + (h % 100) * (SortedAt(s, hi) - SortedAt(s, lo))

\* np.median(a) of the sorted array s: the middle element, or the mean of the two
\* middle elements, as a numerator over 100
Median(s) ==
    IF s.size % 2 = 1
    THEN 100 * SortedAt(s, (s.size - 1) \div 2)
    ELSE 50 * (SortedAt(s, (s.size \div 2) - 1) + SortedAt(s, s.size \div 2))

\* a threshold one unit too low, so that a sample equal to the amount counts as over it
DollarsBelow(t) == t * VulnDen - 1
\* an amount of t million dollars in the unit of an ale sample
Dollars(t) == t * VulnDen

RECURSIVE FSum(_)
\* the sum of the values of a function with a finite domain
FSum(f) ==
    IF DOMAIN f = {} THEN 0
    ELSE LET x == CHOOSE y \in DOMAIN f : TRUE
         IN  f[x] + FSum([y \in DOMAIN f \ {x} |-> f[y]])

\* np.std(a, ddof=1) squared is  sum_{x<y} count_x * count_y * (c_x - c_y)^2 / (n * (n - 1))
\* over the cycle positions x < y.  With q = n \div RngPeriod and r = n % RngPeriod each
\* count is q, or q + 1 for a position <= r, so the numerator is  qq * q^2 + q1 * q + q0:
Variance(a) ==
    LET r == a.size % RngPeriod
        pairs == {p \in Idx \X Idx : p[1] < p[2]}
        sq(p) == (a.cyc[p[1]] - a.cyc[p[2]]) * (a.cyc[p[1]] - a.cyc[p[2]])
        in(x) == IF x <= r THEN 1 ELSE 0
    IN  [qq |-> FSum([p \in pairs |-> sq(p)]),
         q1 |-> FSum([p \in pairs |-> (in(p[1]) + in(p[2])) * sq(p)]),
         q0 |-> FSum([p \in pairs |-> in(p[1]) * in(p[2]) * sq(p)])]

\* a mask that keeps only the samples above the threshold
TailMaskStrict(ale, var_95_value) == {v \in Values(ale) : 100 * v > var_95_value}
\* the values the mask ale_samples >= var_95_value keeps; var_95_value is a numerator
\* over 100
TailMask(ale, var_95_value) == {v \in Values(ale) : 100 * v >= var_95_value}

\* the 'statistics' dict of run_simulation, in exact arithmetic
Statistics(ale) ==
    LET n == ale.size
        sorted == Sort(ale)
        var_95_value == Percentile(sorted, 95)
        tail == TailMask(ale, var_95_value)
    IN  [mean_loss |-> [num |-> ArraySum(ale), den |-> n],
         median_loss |-> Median(sorted),
         \* the square of std_loss, see Variance
         std_loss |-> Variance(ale),
         min_loss |-> SortedAt(sorted, 0),
         max_loss |-> SortedAt(sorted, n - 1),
         percentile_10 |-> Percentile(sorted, 10),
         percentile_25 |-> Percentile(sorted, 25),
         percentile_50 |-> Percentile(sorted, 50),
         percentile_75 |-> Percentile(sorted, 75),
         percentile_90 |-> Percentile(sorted, 90),
         percentile_95 |-> Percentile(sorted, 95),
         percentile_99 |-> Percentile(sorted, 99),
         var_95 |-> var_95_value,
         cvar_95 |-> [num |-> SumIn(ale, tail), den |-> CountIn(ale, tail)],
         probability_zero_loss |-> [num |-> CountIn(ale, {0}), den |-> n],
         probability_over_1m |->
             [num |-> CountIn(ale, {v \in Values(ale) : v > Dollars(OneMillion)}), den |-> n],
         probability_over_5m |->
             [num |-> CountIn(ale, {v \in Values(ale) : v > Dollars(FiveMillion)}), den |-> n],
         probability_over_10m |->
             [num |-> CountIn(ale, {v \in Values(ale) : v > Dollars(TenMillion)}), den |-> n]]

----------------------------------------------------------------------------
(* Floating point.  np.mean and np.std add the elements in float64, and     *)
(* every addition rounds.  The format here is float64 with the mantissa     *)
(* shortened to MantBits bits: a float is a natural number with at most     *)
(* MantBits significant bits, in the unit of the array's elements.  (Below  *)
(* 2^MantBits the floats are the naturals, a coarser grid than float64      *)
(* has there; a quotient rounded onto it stays between the representable    *)
(* bounds of the exact quotient.)                                           *)

MantBits == 13

RECURSIVE Pow2(_)
Pow2(e) == IF e = 0 THEN 1 ELSE 2 * Pow2(e - 1)

\* the naturals below MantLimit have at most MantBits bits
MantLimit == Pow2(MantBits)

RECURSIVE Ulp(_)
\* the spacing of the floats around k
Ulp(k) == IF k < MantLimit THEN 1 ELSE 2 * Ulp(k \div 2)

\* a / b rounded to the nearest integer, ties to even
RoundHalfEven(a, b) ==
    LET q == a \div b
        r == a % b
    IN  IF 2 * r < b THEN q
        ELSE IF 2 * r > b THEN q + 1
        ELSE q + (q % 2)

\* the float nearest to a / b
FlDiv(a, b) == LET u == Ulp(a \div b) IN u * RoundHalfEven(a, b * u)

\* the float nearest to k: the result of an addition whose exact sum is k
Fl(k) == FlDiv(k, 1)

\* element i (0-based) of an array whose cycle may have any length
Elem(a, i) == a.cyc[(i % Len(a.cyc)) + 1]

\* a[mask], for a mask given as the set S of values it keeps: the kept elements in order
Compress(a, S) ==
    LET kept == SelectSeq([j \in 1..Len(a.cyc) |-> a.cyc[j]], LAMBDA v : v \in S)
    IN  [size |-> CountIn(a, S), cyc |-> kept]

RECURSIVE SumFrom(_, _, _, _, _)
\* res += a[lo], a[lo + stride], ..., count elements, each addition rounded
SumFrom(a, lo, stride, count, res) ==
    IF count = 0 THEN res
    ELSE SumFrom(a, lo + stride, stride, count - 1, Fl(res + Elem(a, lo)))

RECURSIVE PairwiseSum(_, _, _)
\* numpy's pairwise summation of a[lo .. lo + n - 1]
PairwiseSum(a, lo, n) ==
    IF n < 8 THEN SumFrom(a, lo, 1, n, 0)
    ELSE IF n <= 128
    THEN LET rows == n \div 8
             r == [j \in 0..7 |-> SumFrom(a, lo + 8 + j, 8, rows - 1, Elem(a, lo + j))]
             res == Fl(Fl(Fl(r[0] + r[1]) + Fl(r[2] + r[3]))
                       + Fl(Fl(r[4] + r[5]) + Fl(r[6] + r[7])))
         IN  SumFrom(a, lo + 8 * rows, 1, n % 8, res)
    ELSE LET half == n \div 2
             n2 == half - (half % 8)
         IN  Fl(PairwiseSum(a, lo, n2) + PairwiseSum(a, lo + n2, n - n2))

\* np.mean(a): the rounded sum divided by the count
NpMean(a) == FlDiv(PairwiseSum(a, 0, a.size), a.size)

\* np.std(a, ddof=1) squared: the mean is subtracted from every element, the
\* differences are squared and summed, and the sum is divided by n - 1
NpVariance(a) ==
    LET arrmean == NpMean(a)
        x == [size |-> a.size,
              cyc |-> [j \in 1..Len(a.cyc) |->
                          Fl((a.cyc[j] - arrmean) * (a.cyc[j] - arrmean))]]
    IN  FlDiv(PairwiseSum(x, 0, x.size), x.size - 1)

\* cvar_95_value = np.mean(ale_samples[ale_samples >= var_95_value]), as a float
NpCvar(ale) == NpMean(Compress(ale, TailMask(ale, Percentile(Sort(ale), 95))))

----------------------------------------------------------------------------
(* run_simulation and run_all_scenarios on one calculator.                  *)
(* A run of calculator calc at generator state g yields                     *)
(*   [err, calc, g, result, drawn]: the error raised ("" for none), the     *)
(*   calculator afterwards, the generator afterwards, the returned result   *)
(*   (a sequence of length 0 or 1) and the number of values drawn.          *)
(* run_all_scenarios yields rows (the summary table) instead of result, and *)
(* done, the number of scenarios whose simulation completed.                *)

AnyDistribution == {"pert", "triangular", "gaussian"}
\* the kinds run_simulation accepts
Distributions == {"pert", "triangular"}

FindScenarioOrFirst(scenarios, scenario_id) ==
    LET hits == {k \in 1..Len(scenarios) : scenarios[k].id = scenario_id}
    IN  IF scenarios = <<>> THEN <<>>
        ELSE IF hits = {} THEN <<scenarios[1]>>
        ELSE <<scenarios[CHOOSE k \in hits : \A m \in hits : k <= m]>>

\* a lookup that returns the latest-added match
FindScenarioLast(scenarios, scenario_id) ==
    LET hits == {k \in 1..Len(scenarios) : scenarios[k].id = scenario_id}
    IN  IF hits = {} THEN <<>>
        ELSE <<scenarios[CHOOSE k \in hits : \A m \in hits : k >= m]>>

\* next((s for s in self.scenarios if s['id'] == scenario_id), None): <<>> for None
FindScenario(scenarios, scenario_id) ==
    LET hits == {k \in 1..Len(scenarios) : scenarios[k].id = scenario_id}
    IN  IF hits = {} THEN <<>>
        ELSE <<scenarios[CHOOSE k \in hits : \A m \in hits : k <= m]>>

Sample(distribution, g, est, size) ==
    IF distribution = "pert"
    THEN _pert_distribution(g, est.low, est.medium, est.high, size)
    ELSE _triangular_distribution(g, est.low, est.medium, est.high, size)

\* the results dict built from the three sample arrays.  Its 'statistics' entry is a
\* function of ale_samples alone and is not held in the state: it is ResultStatistics
MakeResult(scenario_id, scenario, iterations, distribution, tef, vuln, loss) ==
    LET lef_samples == Mul(tef, vuln)
        ale_samples == Mul(lef_samples, loss)
    IN  [scenario_id |-> scenario_id,
         description |-> scenario.description,
         iterations |-> iterations,
         distribution_type |-> distribution,
         tef_samples |-> tef,
         vuln_samples |-> vuln,
         loss_samples |-> loss,
         lef_samples |-> lef_samples,
         ale_samples |-> ale_samples]

\* results['statistics']
ResultStatistics(results) == Statistics(results.ale_samples)

\* a raised ValueError: err is the message, named the argument value the message quotes
Failed(calc, g, err, named, drawn) ==
    [err |-> err, named |-> named, calc |-> calc, g |-> g, result |-> <<>>,
     drawn |-> drawn]

\* a cache that keeps nothing but the entry just written
StoreOnly(simulation_results, scenario_id, results) == (scenario_id :> results)
\* self.simulation_results[scenario_id] = results
Store(simulation_results, scenario_id, results) ==
    (scenario_id :> results) @@ simulation_results

run_simulation(calc, g, scenario_id, distribution) ==
    LET found == FindScenario(calc.scenarios, scenario_id)
    IN  IF found = <<>> THEN Failed(calc, g, "Scenario not found", scenario_id, 0)
        ELSE IF distribution \notin Distributions
        THEN Failed(calc, g, "Invalid distribution type", distribution, 0)
        ELSE
        LET scenario == found[1]
            t == Sample(distribution, g, scenario.tef, calc.iterations)
            v == Sample(distribution, t.g, scenario.vulnerability, calc.iterations)
            l == Sample(distribution, v.g, scenario.loss_magnitude, calc.iterations)
        IN  IF t.err # "" THEN Failed(calc, t.g, t.err, "", t.drawn)
            ELSE IF v.err # "" THEN Failed(calc, v.g, v.err, "", t.drawn + v.drawn)
            ELSE IF l.err # ""
            THEN Failed(calc, l.g, l.err, "", t.drawn + v.drawn + l.drawn)
            ELSE
            LET results == MakeResult(scenario_id, scenario, calc.iterations,
                                      distribution, t.arr, v.arr, l.arr)
            IN  [err |-> "",
                 named |-> "",
                 calc |-> [calc EXCEPT !.simulation_results =
                              Store(calc.simulation_results, scenario_id, results)],
                 g |-> l.g,
                 result |-> <<results>>,
                 drawn |-> t.drawn + v.drawn + l.drawn]

\* one row of the summary table: results_list.append({...}).  The state holds the
\* scenario and the result a row was projected from; RowOf gives the row itself
SummaryRow(scenario, result) == [scenario |-> scenario, result |-> result]

RowOf(row) ==
    LET statistics == ResultStatistics(row.result)
    IN  [scenario_id |-> row.scenario.id,
         description |-> row.scenario.description,
         mean_loss |-> statistics.mean_loss,
         median_loss |-> statistics.median_loss,
         std_loss |-> statistics.std_loss,
         percentile_10 |-> statistics.percentile_10,
         percentile_90 |-> statistics.percentile_90,
         var_95 |-> statistics.var_95,
         cvar_95 |-> statistics.cvar_95,
         probability_zero_loss |-> statistics.probability_zero_loss,
         probability_over_1m |-> statistics.probability_over_1m,
         probability_over_5m |-> statistics.probability_over_5m]

RECURSIVE RunAllSkipping(_, _, _, _, _, _)
\* a loop that goes on with the next scenario after a failed simulation
RunAllSkipping(calc, g, distribution, k, rows, drawn) ==
    IF k > Len(calc.scenarios)
    THEN [err |-> IF Len(rows) = Len(calc.scenarios) THEN "" ELSE "Batch failed",
          named |-> "", calc |-> calc, g |-> g,
          rows |-> IF Len(rows) = Len(calc.scenarios) THEN rows ELSE <<>>,
          drawn |-> drawn, done |-> Len(rows)]
    ELSE LET r == run_simulation(calc, g, calc.scenarios[k].id, distribution)
         IN  IF r.err # ""
             THEN RunAllSkipping(r.calc, r.g, distribution, k + 1, rows, drawn + r.drawn)
             ELSE RunAllSkipping(r.calc, r.g, distribution, k + 1,
                                 Append(rows, SummaryRow(calc.scenarios[k], r.result[1])),
                                 drawn + r.drawn)

RECURSIVE RunAllFrom(_, _, _, _, _, _)
\* the loop of run_all_scenarios from the k-th stored scenario on; the scenario list
\* itself is never changed by a run, so calc.scenarios is the list being iterated
RunAllFrom(calc, g, distribution, k, rows, drawn) ==
    IF k > Len(calc.scenarios)
    THEN [err |-> "", named |-> "", calc |-> calc, g |-> g, rows |-> rows,
          drawn |-> drawn, done |-> k - 1]
    ELSE LET r == run_simulation(calc, g, calc.scenarios[k].id, distribution)
         IN  IF r.err # ""
             THEN [err |-> r.err, named |-> r.named, calc |-> r.calc, g |-> r.g,
                   rows |-> <<>>, drawn |-> drawn + r.drawn, done |-> k - 1]
             ELSE RunAllFrom(r.calc, r.g, distribution, k + 1,
                             Append(rows, SummaryRow(calc.scenarios[k], r.result[1])),
                             drawn + r.drawn)

run_all_scenarios(calc, g, distribution) == RunAllFrom(calc, g, distribution, 1, <<>>, 0)

----------------------------------------------------------------------------
(* State *)

NoHist == [seed |-> NoSeed, runs |-> 0, ownDraws |-> FALSE, disturbed |-> FALSE]

\* hist[c].seed      the random_seed instance c was constructed with
\* hist[c].runs      the run_simulation / run_all_scenarios calls made on c
\* hist[c].ownDraws  a call on c has drawn from the generator since c was constructed
\* hist[c].disturbed another instance has seeded the generator or drawn from it
\*                   since c was constructed
\* prov[c][id].first the cached result of id came from a run_simulation call that began
\*                   with hist[c].ownDraws false
\* prov[c][id].alone ... that began with hist[c].disturbed false

NoInput == Input("", "", 0, 0, 0, 0, 0, 0, 0, 0, 0)

\* no file, no manifest and no verifier; the dashboard not started
NoInteg == [files |-> <<>>, manifest |-> <<>>, verifier |-> <<>>]
\* init_session_state()
NoSession == [scenarios |-> <<>>, simulation_results |-> <<>>, current_scenario_id |-> 1]

Call(op, c) ==
    [op |-> op, calc |-> c, iterations |-> 0, seed |-> NoSeed, input |-> NoInput,
     scenario_id |-> "", distribution |-> "", err |-> "", named |-> "",
     errors |-> <<>>,
     result |-> <<>>, rows |-> <<>>, drawn |-> 0, done |-> 0]

Init ==
    /\ integ = NoInteg /\ session = NoSession
    /\ rng \in 0..(RngPeriod - 1)     \* seeded by the operating system at import
    /\ calcs = [c \in CalcIds |-> NoCalc]
    /\ hist = [c \in CalcIds |-> NoHist]
    /\ prov = [c \in CalcIds |-> <<>>]
    /\ last = Call("start", "")

\* every other instance sees the generator reseeded or advanced
Disturb(h, c, touched) ==
    [x \in CalcIds |->
        IF x # c /\ touched THEN [h[x] EXCEPT !.disturbed = TRUE] ELSE h[x]]

----------------------------------------------------------------------------
(* Operations *)

IterationsErrorOffByOne(iterations) ==
    IF iterations <= MinIterations
    THEN "Iterations must be at least 1000"
    ELSE IF iterations >= MaxIterations
    THEN "Iterations cannot exceed 1,000,000"
    ELSE ""

\* the ValueError __init__ raises for the iteration count, "" for none
IterationsError(iterations) ==
    IF iterations < MinIterations
    THEN "Iterations must be at least 1000"
    ELSE IF iterations > MaxIterations
    THEN "Iterations cannot exceed 1,000,000"
    ELSE ""

\* the generator after "if random_seed is not None: np.random.seed(random_seed)"
SeedIgnored(g, random_seed) == g
Seeded(g, random_seed) == IF random_seed # NoSeed THEN SeedState(random_seed) ELSE g

\* FAIRRiskCalculator(iterations, random_seed), bound to the name c
Construct(c, iterations, random_seed) ==
    /\ UNCHANGED <<integ, session>>
    /\ ~calcs[c].live
    /\ IF IterationsError(iterations) # ""
       THEN /\ last' = [Call("__init__", c) EXCEPT !.iterations = iterations,
                           !.seed = random_seed, !.err = IterationsError(iterations)]
            /\ UNCHANGED <<rng, calcs, hist, prov>>
       ELSE /\ calcs' = [calcs EXCEPT ![c] =
                            [iterations |-> iterations, scenarios |-> <<>>,
                             simulation_results |-> <<>>, live |-> TRUE]]
            /\ rng' = Seeded(rng, random_seed)
            /\ hist' = [Disturb(hist, c, random_seed # NoSeed) EXCEPT ![c] =
                           [NoHist EXCEPT !.seed = random_seed]]
            /\ prov' = [prov EXCEPT ![c] = <<>>]
            /\ last' = [Call("__init__", c) EXCEPT !.iterations = iterations,
                           !.seed = random_seed]

\* c.add_scenario(...)
AddScenario(c, in) ==
    /\ UNCHANGED <<integ, session>>
    /\ calcs[c].live
    /\ Len(calcs[c].scenarios) < MaxScenarios
    /\ LET validation_errors == ValidationErrors(in)
       IN  IF validation_errors # <<>>
           THEN /\ last' = [Call("add_scenario", c) EXCEPT !.input = in,
                               !.err = "Validation failed", !.errors = validation_errors]
                /\ UNCHANGED <<rng, calcs, hist, prov>>
           ELSE /\ calcs' = [calcs EXCEPT ![c].scenarios = Append(@, MakeScenario(in))]
                /\ last' = [Call("add_scenario", c) EXCEPT !.input = in]
                /\ UNCHANGED <<rng, hist, prov>>

\* c.run_simulation(scenario_id, distribution)
RunSimulation(c, scenario_id, distribution) ==
    /\ UNCHANGED <<integ, session>>
    /\ calcs[c].live
    /\ hist[c].runs < MaxRuns
    /\ LET r == run_simulation(calcs[c], rng, scenario_id, distribution)
       IN  /\ calcs' = [calcs EXCEPT ![c] = r.calc]
           /\ rng' = r.g
           /\ hist' = [Disturb(hist, c, r.drawn > 0) EXCEPT
                          ![c].runs = @ + 1,
                          ![c].ownDraws = @ \/ r.drawn > 0]
           /\ prov' = IF r.err = ""
                      THEN [prov EXCEPT ![c] =
                              (scenario_id :> [first |-> ~hist[c].ownDraws,
                                               alone |-> ~hist[c].disturbed]) @@ @]
                      ELSE prov
           /\ last' = [Call("run_simulation", c) EXCEPT !.scenario_id = scenario_id,
                          !.distribution = distribution, !.err = r.err,
                          !.named = r.named, !.result = r.result, !.drawn = r.drawn]

\* c.run_all_scenarios(distribution)
RunAllScenarios(c, distribution) ==
    /\ UNCHANGED <<integ, session>>
    /\ calcs[c].live
    /\ hist[c].runs < MaxRuns
    /\ LET r == run_all_scenarios(calcs[c], rng, distribution)
           written == {calcs[c].scenarios[k].id : k \in 1..r.done}
       IN  /\ calcs' = [calcs EXCEPT ![c] = r.calc]
           /\ rng' = r.g
           /\ hist' = [Disturb(hist, c, r.drawn > 0) EXCEPT
                          ![c].runs = @ + 1,
                          ![c].ownDraws = @ \/ r.drawn > 0]
           /\ prov' = [prov EXCEPT ![c] =
                          [id \in written |-> [first |-> FALSE,
                                               alone |-> ~hist[c].disturbed]] @@ @]
           /\ last' = [Call("run_all_scenarios", c) EXCEPT !.distribution = distribution,
                          !.err = r.err, !.named = r.named, !.rows = r.rows,
                          !.drawn = r.drawn, !.done = r.done]

----------------------------------------------------------------------------------------------------------------------------------------
(* The calculator lifecycle: any calls, in any order, on one instance.      *)

IterationChoices ==
    {500, MinIterations - 1, MinIterations, DefaultIterations, MaxIterations,
     MaxIterations + 1, 2000000}

SeedChoices == {NoSeed} \cup 0..MaxSeed

DistributionChoices == {"pert", "triangular", "gaussian"}

\* three-point estimates: spread over all factors, single points (TEF 2, vulnerability
\* 0.5, loss 1000), and one with loss_medium < loss_low
Estimates ==
    {<<"spread", 1, 2, 3, 0, 1, VulnDen, 1, 1, 2>>,
     <<"point", 2, 2, 2, 1, 1, 1, 1000, 1000, 1000>>,
     <<"badloss", 1, 2, 3, 0, 1, VulnDen, 5, 2, 10>>}

LifecycleInputs ==
    {Input(id, e[1], e[2], e[3], e[4], e[5], e[6], e[7], e[8], e[9], e[10]) :
        id \in ScenarioIds, e \in Estimates}

Next ==
    \/ \E n \in IterationChoices, seed \in SeedChoices : Construct("calc1", n, seed)
    \/ \E in \in LifecycleInputs : AddScenario("calc1", in)
    \/ \E id \in ScenarioIds \cup {"S0"}, d \in DistributionChoices :
           RunSimulation("calc1", id, d)
    \/ \E d \in DistributionChoices : RunAllScenarios("calc1", d)

Spec == Init /\ [][Next]_vars

----------------------------------------------------------------------------
(* Validation alone: one add_scenario call, with any arguments, on a        *)
(* calculator constructed as FAIRRiskCalculator().                          *)

TefLossRange == -1..MaxVal
VulnRange == -1..(VulnDen + 1)

ValidationInputs ==
    {Input("S1", "d", e[1], e[2], e[3], e[4], e[5], e[6], e[7], e[8], e[9]) :
        e \in TefLossRange \X TefLossRange \X TefLossRange
              \X VulnRange \X VulnRange \X VulnRange
              \X TefLossRange \X TefLossRange \X TefLossRange}

InitValidate ==
    /\ integ = NoInteg /\ session = NoSession
    /\ rng = 0
    /\ calcs = [c \in CalcIds |->
                  IF c = "calc1"
                  THEN [iterations |-> DefaultIterations, scenarios |-> <<>>,
                        simulation_results |-> <<>>, live |-> TRUE]
                  ELSE NoCalc]
    /\ hist = [c \in CalcIds |-> NoHist]
    /\ prov = [c \in CalcIds |-> <<>>]
    /\ last = [Call("__init__", "calc1") EXCEPT !.iterations = DefaultIterations]

NextValidate ==
    /\ last.op = "__init__"
    /\ \E in \in ValidationInputs : AddScenario("calc1", in)

SpecValidate == InitValidate /\ [][NextValidate]_vars

----------------------------------------------------------------------------
(* Seeding: two instances in one process, each constructed, given a         *)
(* scenario and run once, in any interleaving.                              *)

SeedingIterations == {MinIterations, DefaultIterations}

SeedingInputs ==
    {Input("S1", e[1], e[2], e[3], e[4], e[5], e[6], e[7], e[8], e[9], e[10]) :
        e \in {x \in Estimates : x[1] = "spread"}}

NextSeeding ==
    \/ \E c \in CalcIds, n \in SeedingIterations, seed \in SeedChoices :
           Construct(c, n, seed)
    \/ \E c \in CalcIds, in \in SeedingInputs : AddScenario(c, in)
    \/ \E c \in CalcIds, d \in Distributions :
           hist[c].runs = 0 /\ RunSimulation(c, "S1", d)

SpecSeeding == Init /\ [][NextSeeding]_vars

----------------------------------------------------------------------------
(* The statistics alone: the statistics block of run_simulation applied to  *)
(* an ale_samples array of any content.                                     *)

\* a float whose mantissa takes all MantBits bits, as that of 0.1 does in float64
\* (0x1.999999999999a): 0x199a
Tenth == 6554

AleValues == {0, 1, Tenth}
AleSizes == {MinIterations, MinIterations + 1, DefaultIterations}

AleArrays == {[size |-> n, cyc |-> c] : n \in AleSizes, c \in [Idx -> AleValues]}

InitStatistics ==
    /\ integ = NoInteg /\ session = NoSession
    /\ rng = 0
    /\ calcs = [c \in CalcIds |-> NoCalc]
    /\ hist = [c \in CalcIds |-> NoHist]
    /\ prov = [c \in CalcIds |-> <<>>]
    /\ \E a \in AleArrays :
          last = [Call("ale_samples", "") EXCEPT !.result = <<[ale_samples |-> a]>>]

\* lines 305-354: the 'statistics' entry is computed from ale_samples
ComputeStatistics ==
    /\ UNCHANGED <<integ, session>>
    /\ last.op = "ale_samples"
    /\ last' = [last EXCEPT !.op = "statistics",
                   !.result = <<[ale_samples |-> last.result[1].ale_samples,
                                 statistics |-> Statistics(last.result[1].ale_samples)]>>]
    /\ UNCHANGED <<rng, calcs, hist, prov>>

NextStatistics == ComputeStatistics

SpecStatistics == InitStatistics /\ [][NextStatistics]_vars


----------------------------------------------------------------------------
(* The statistics of ale arrays whose samples lie on and around the three   *)
(* thresholds of the probability entries.                                   *)

\* four sample values each: zero with amounts at, just over and between the thresholds
ThresholdPalettes ==
    {<<0, Dollars(OneMillion), Dollars(OneMillion) + 1, Dollars(FiveMillion) + 1>>,
     <<0, Dollars(FiveMillion), Dollars(TenMillion), Dollars(TenMillion) + 1>>,
     <<0, Dollars(OneMillion) + 1, Dollars(FiveMillion) + 1, Dollars(TenMillion) + 1>>}

ThresholdArrays ==
    {[size |-> MinIterations, cyc |-> [j \in Idx |-> pal[c[j]]]] :
        pal \in ThresholdPalettes, c \in [Idx -> 1..4]}

InitThresholds ==
    /\ integ = NoInteg /\ session = NoSession
    /\ rng = 0
    /\ calcs = [c \in CalcIds |-> NoCalc]
    /\ hist = [c \in CalcIds |-> NoHist]
    /\ prov = [c \in CalcIds |-> <<>>]
    /\ \E a \in ThresholdArrays :
          last = [Call("ale_samples", "") EXCEPT !.result = <<[ale_samples |-> a]>>]

SpecThresholds == InitThresholds /\ [][NextStatistics]_vars

----------------------------------------------------------------------------
(* One run: a calculator is given one scenario, with any valid estimates    *)
(* over a few values, and the scenario is simulated once.                   *)

RunIterations == {MinIterations, DefaultIterations}
TefValues == 0..2
VulnValues == 0..VulnDen
LossValues == {0, 1, Tenth}

\* the triples low <= medium <= high over a set of values
Triples(S) == {e \in S \X S \X S : e[1] <= e[2] /\ e[2] <= e[3]}

RunInputs ==
    {Input("S1", "d", t[1], t[2], t[3], v[1], v[2], v[3], l[1], l[2], l[3]) :
        t \in Triples(TefValues), v \in Triples(VulnValues), l \in Triples(LossValues)}

InitRun ==
    /\ integ = NoInteg /\ session = NoSession
    /\ rng \in 0..(RngPeriod - 1)
    /\ \E n \in RunIterations :
          /\ calcs = [c \in CalcIds |->
                        IF c = "calc1"
                        THEN [iterations |-> n, scenarios |-> <<>>,
                              simulation_results |-> <<>>, live |-> TRUE]
                        ELSE NoCalc]
          /\ last = [Call("__init__", "calc1") EXCEPT !.iterations = n]
    /\ hist = [c \in CalcIds |-> NoHist]
    /\ prov = [c \in CalcIds |-> <<>>]

NextRun ==
    \/ /\ calcs["calc1"].scenarios = <<>>
       /\ \E in \in RunInputs : AddScenario("calc1", in)
    \/ /\ hist["calc1"].runs = 0
       /\ \E d \in Distributions : RunSimulation("calc1", "S1", d)

SpecRun == InitRun /\ [][NextRun]_vars

----------------------------------------------------------------------------
(* The samplers alone: _pert_distribution or _triangular_distribution is    *)
(* called directly on a calculator, with any triple and any count.          *)

SamplerValues == -1..2
SamplerSizes == {1, RngPeriod + 1, MinIterations, DefaultIterations}

InitSampler ==
    /\ integ = NoInteg /\ session = NoSession
    /\ rng \in 0..(RngPeriod - 1)
    /\ calcs = [c \in CalcIds |->
                  IF c = "calc1"
                  THEN [iterations |-> DefaultIterations, scenarios |-> <<>>,
                        simulation_results |-> <<>>, live |-> TRUE]
                  ELSE NoCalc]
    /\ hist = [c \in CalcIds |-> NoHist]
    /\ prov = [c \in CalcIds |-> <<>>]
    /\ last = [Call("__init__", "calc1") EXCEPT !.iterations = DefaultIterations]

\* c._pert_distribution(low, medium, high, size) or
\* c._triangular_distribution(low, medium, high, size)
CallSampler(c, distribution, low, medium, high, size) ==
    /\ UNCHANGED <<integ, session>>
    /\ calcs[c].live
    /\ LET r == Sample(distribution, rng, [low |-> low, medium |-> medium, high |-> high],
                       size)
       IN  /\ rng' = r.g
           /\ hist' = [Disturb(hist, c, r.drawn > 0) EXCEPT
                          ![c].ownDraws = @ \/ r.drawn > 0]
           /\ last' = [low |-> low, medium |-> medium, high |-> high, size |-> size,
                       arr |-> r.arr]
                      @@ [Call(IF distribution = "pert" THEN "_pert_distribution"
                               ELSE "_triangular_distribution", c)
                             EXCEPT !.distribution = distribution, !.err = r.err,
                                    !.drawn = r.drawn]
           /\ UNCHANGED <<calcs, prov>>

NextSampler ==
    /\ last.op = "__init__"
    /\ \E d \in Distributions, low \in SamplerValues, medium \in SamplerValues,
          high \in SamplerValues, size \in SamplerSizes :
           CallSampler("calc1", d, low, medium, high, size)

SpecSampler == InitSampler /\ [][NextSampler]_vars


----------------------------------------------------------------------------
(* The integrity tools.  integ.files gives each monitored file's state on   *)
(* disk, integ.manifest is integrity_manifest.json (<<>> when there is      *)
(* none, else <<m>> with m the 'files' dict), integ.verifier is an          *)
(* IntegrityVerifier instance (<<>> when there is none).  A SHA-256 digest   *)
(* is a string that determines the content; None is NoHash.                  *)

\* the monitored files, in sorted order (two of CRITICAL_FILES)
MonitoredFiles == <<"fair_risk_calculator.py", "requirements.txt">>
FileNames == {MonitoredFiles[i] : i \in 1..Len(MonitoredFiles)}
Contents == {"v1", "v2"}

Absent == [exists |-> FALSE, readable |-> FALSE, content |-> ""]
\* a file that cannot be opened; what it holds shows only once it is written again
Unreadable == [exists |-> TRUE, readable |-> FALSE, content |-> ""]
FileStates ==
    {Absent, Unreadable} \cup {[exists |-> TRUE, readable |-> TRUE, content |-> c] :
                                  c \in Contents}

NoHash == ""
\* hashlib.sha256 over the content, hexdigest
Sha256(content) == "sha256:" \o content

\* calculate_file_hash of the three classes: None when the file cannot be opened or read
calculate_file_hash(files, file_path) ==
    IF files[file_path].exists /\ files[file_path].readable
    THEN Sha256(files[file_path].content)
    ELSE NoHash

\* IntegrityManifestGenerator.get_file_info
get_file_info(files, file_path) ==
    IF ~files[file_path].exists
    THEN [status |-> "missing", hash |-> NoHash]
    ELSE [status |-> "present", hash |-> calculate_file_hash(files, file_path)]

\* IntegrityManifestGenerator.generate_manifest: manifest['files']
generate_manifest(files) == [f \in FileNames |-> get_file_info(files, f)]

\* a runtime check that passes a file whose hash differs
Checker_verify_file_lax(manifest, files, file_path) ==
    \/ manifest[file_path].hash = NoHash
    \/ calculate_file_hash(files, file_path) # NoHash

\* RuntimeIntegrityChecker.verify_file, for a file of the manifest
Checker_verify_file(manifest, files, file_path) ==
    IF manifest[file_path].hash = NoHash THEN TRUE      \* no hash to verify against
    ELSE IF calculate_file_hash(files, file_path) = NoHash THEN FALSE
    ELSE calculate_file_hash(files, file_path) = manifest[file_path].hash

\* RuntimeIntegrityChecker.verify_critical_files with files_to_check = None
verify_critical_files(manifest, files) ==
    \A f \in FileNames : Checker_verify_file(manifest, files, f)

\* AutoIntegrity.run: the value returned and the manifest on disk afterwards
AutoIntegrity_run(g, auto_generate, strict) ==
    IF g.manifest = <<>>
    THEN IF auto_generate
         THEN [returned |-> TRUE, manifest |-> <<generate_manifest(g.files)>>]
         ELSE [returned |-> TRUE, manifest |-> g.manifest]
    ELSE IF verify_critical_files(g.manifest[1], g.files)
         THEN [returned |-> TRUE, manifest |-> g.manifest]
         ELSE [returned |-> FALSE, manifest |-> g.manifest]

\* IntegrityVerifier.__init__
NewResults == [verified |-> <<>>, modified |-> <<>>, missing |-> <<>>, errors |-> <<>>]

\* IntegrityVerifier.verify_file: the status
Verifier_verify_file(files, file_path, expected_info) ==
    IF ~files[file_path].exists
    THEN IF expected_info.status = "missing" THEN "verified" ELSE "missing"
    ELSE IF calculate_file_hash(files, file_path) = NoHash THEN "error"
    ELSE IF calculate_file_hash(files, file_path) = expected_info.hash THEN "verified"
    ELSE "modified"

RECURSIVE Categorize(_, _, _, _)
\* the loop of verify_all over sorted(manifest['files']), from the k-th file on
Categorize(manifest, files, results, k) ==
    IF k > Len(MonitoredFiles) THEN results
    ELSE LET file_path == MonitoredFiles[k]
             status == Verifier_verify_file(files, file_path, manifest[file_path])
         IN  Categorize(manifest, files,
                 [results EXCEPT
                     !.verified = IF status = "verified" THEN Append(@, file_path) ELSE @,
                     !.modified = IF status = "modified" THEN Append(@, file_path) ELSE @,
                     !.missing = IF status = "missing" THEN Append(@, file_path) ELSE @,
                     !.errors = IF status = "error" THEN Append(@, file_path) ELSE @],
                 k + 1)

\* IntegrityVerifier.verify_all on verifier v: the value returned and v afterwards
verify_all(v, g) ==
    LET loaded == IF v.manifest # <<>> THEN v.manifest ELSE g.manifest
    IN  IF loaded = <<>> THEN [returned |-> FALSE, verifier |-> v]
        ELSE LET results == Categorize(loaded[1], g.files, v.results, 1)
             IN  [returned |-> results.modified = <<>> /\ results.missing = <<>>,
                  verifier |-> [manifest |-> loaded, results |-> results,
                                calls |-> v.calls + 1]]

MaxVerifyCalls == 2

\* the outcome of a call of an integrity tool
Outcome(op, returned, auto_generate, strict) ==
    [Call(op, "") EXCEPT
        !.result = <<[returned |-> returned, auto_generate |-> auto_generate,
                      strict |-> strict]>>]

\* a monitored file is written (created or modified)
WriteFile(f, c) ==
    /\ integ.files[f] # [exists |-> TRUE, readable |-> TRUE, content |-> c]
    /\ integ' = [integ EXCEPT !.files[f] = [exists |-> TRUE, readable |-> TRUE,
                                            content |-> c]]
    /\ last' = Call("environment", "")
    /\ UNCHANGED <<rng, calcs, hist, prov, session>>

\* a monitored file is deleted
DeleteFile(f) ==
    /\ integ.files[f].exists
    /\ integ' = [integ EXCEPT !.files[f] = Absent]
    /\ last' = Call("environment", "")
    /\ UNCHANGED <<rng, calcs, hist, prov, session>>

\* a monitored file loses its read permission
MakeUnreadable(f) ==
    /\ integ.files[f].exists /\ integ.files[f].readable
    /\ integ' = [integ EXCEPT !.files[f] = Unreadable]
    /\ last' = Call("environment", "")
    /\ UNCHANGED <<rng, calcs, hist, prov, session>>

\* integrity_manifest.json is deleted
RemoveManifest ==
    /\ integ.manifest # <<>>
    /\ integ' = [integ EXCEPT !.manifest = <<>>]
    /\ last' = Call("environment", "")
    /\ UNCHANGED <<rng, calcs, hist, prov, session>>

\* AutoIntegrity(auto_generate=.., strict=..).run()
AutoIntegrityRun(auto_generate, strict) ==
    /\ LET r == AutoIntegrity_run(integ, auto_generate, strict)
       IN  /\ integ' = [integ EXCEPT !.manifest = r.manifest]
           /\ last' = Outcome("AutoIntegrity.run", r.returned, auto_generate, strict)
    /\ UNCHANGED <<rng, calcs, hist, prov, session>>

\* generate_integrity_manifest.py, run where there is no manifest yet
GenerateManifest ==
    /\ integ.manifest = <<>>
    /\ integ' = [integ EXCEPT !.manifest = <<generate_manifest(integ.files)>>]
    /\ last' = Call("generate_manifest", "")
    /\ UNCHANGED <<rng, calcs, hist, prov, session>>

\* verifier = IntegrityVerifier(); verifier.load_manifest(), with a manifest on disk
NewVerifier ==
    /\ integ.manifest # <<>>
    /\ integ' = [integ EXCEPT !.verifier =
                    <<[manifest |-> integ.manifest, results |-> NewResults, calls |-> 0]>>]
    /\ last' = Call("IntegrityVerifier", "")
    /\ UNCHANGED <<rng, calcs, hist, prov, session>>

\* verifier.verify_all()
VerifyAll ==
    /\ integ.verifier # <<>>
    /\ integ.verifier[1].calls < MaxVerifyCalls
    /\ LET r == verify_all(integ.verifier[1], integ)
       IN  /\ integ' = [integ EXCEPT !.verifier = <<r.verifier>>]
           /\ last' = Outcome("verify_all", r.returned, FALSE, FALSE)
    /\ UNCHANGED <<rng, calcs, hist, prov, session>>

InitIntegrity ==
    /\ rng = 0
    /\ calcs = [c \in CalcIds |-> NoCalc]
    /\ hist = [c \in CalcIds |-> NoHist]
    /\ prov = [c \in CalcIds |-> <<>>]
    /\ session = NoSession
    /\ integ \in [files : [FileNames -> FileStates], manifest : {<<>>},
                  verifier : {<<>>}]
    /\ last = Call("start", "")

\* AutoIntegrity.run at any time, while the files and the manifest come and go
NextIntegrity ==
    \/ \E f \in FileNames, c \in Contents : WriteFile(f, c)
    \/ \E f \in FileNames : DeleteFile(f)
    \/ \E f \in FileNames : MakeUnreadable(f)
    \/ RemoveManifest
    \/ \E auto_generate \in BOOLEAN, strict \in BOOLEAN :
           AutoIntegrityRun(auto_generate, strict)

SpecIntegrity == InitIntegrity /\ [][NextIntegrity]_vars

\* a baseline is generated once; then the files change and verifiers run
NextVerify ==
    \/ GenerateManifest
    \/ \E f \in FileNames, c \in Contents : WriteFile(f, c)
    \/ \E f \in FileNames : DeleteFile(f)
    \/ \E f \in FileNames : MakeUnreadable(f)
    \/ NewVerifier
    \/ VerifyAll

SpecVerify == InitIntegrity /\ [][NextVerify]_vars


----------------------------------------------------------------------------
(* The other two tools: quick_risk_analysis.py and the dashboard            *)
(* fair_risk_app.py.  Their samplers are copies of the calculator's.        *)

\* the three-point estimate of one factor, as the dict the tools pass around
Params(low, medium, high) == [low |-> low, medium |-> medium, high |-> high]

\* a failed call of a tool's simulation
ToolFailed(g, err, drawn) == [err |-> err, g |-> g, result |-> <<>>, drawn |-> drawn]

\* the three sample arrays multiplied: ALE = TEF x Vulnerability x Loss Magnitude
ToolResult(dist_type, iterations, t, v, l) ==
    [err |-> "", g |-> l.g,
     result |-> <<[iterations |-> iterations, distribution_type |-> dist_type,
                   tef_samples |-> t.arr, vuln_samples |-> v.arr, loss_samples |-> l.arr,
                   lef_samples |-> Mul(t.arr, v.arr),
                   ale_samples |-> Mul(Mul(t.arr, v.arr), l.arr)]>>,
     drawn |-> t.drawn + v.drawn + l.drawn]

\* the sampling of the three factors in turn, stopping at the first error
ToolSimulation(g, tef, vuln, loss, iterations, dist_type) ==
    LET t == Sample(dist_type, g, tef, iterations)
        v == Sample(dist_type, t.g, vuln, iterations)
        l == Sample(dist_type, v.g, loss, iterations)
    IN  IF t.err # "" THEN ToolFailed(t.g, t.err, t.drawn)
        ELSE IF v.err # "" THEN ToolFailed(v.g, v.err, t.drawn + v.drawn)
        ELSE IF l.err # "" THEN ToolFailed(l.g, l.err, t.drawn + v.drawn + l.drawn)
        ELSE ToolResult(dist_type, iterations, t, v, l)

\* QuickRiskAnalyzer.analyze_risk(tef, vuln, loss, iterations, random_seed)
analyze_risk(g, tef, vuln, loss, iterations, random_seed) ==
    ToolSimulation(Seeded(g, random_seed), tef, vuln, loss, iterations, "pert")

\* FAIRCalculator.run_simulation(tef_params, vuln_params, loss_params, iterations,
\* dist_type): 'pert' samples PERT, every other value samples triangular
FAIRCalculator_run_simulation(g, tef_params, vuln_params, loss_params, iterations, dist_type) ==
    ToolSimulation(g, tef_params, vuln_params, loss_params, iterations,
                   IF dist_type = "pert" THEN "pert" ELSE "triangular")

\* the validation_errors list of the quick tool's main, with the tags of ValidationErrors
QuickValidationErrors(in) ==
    (IF ~Ascending(in.tef_low, in.tef_medium, in.tef_high) THEN <<"TEF_ORDER">> ELSE <<>>)
    \o (IF ~Ascending(in.vuln_low, in.vuln_medium, in.vuln_high) THEN <<"VULN_ORDER">> ELSE <<>>)
    \o (IF ~(InUnit(in.vuln_low) /\ InUnit(in.vuln_medium) /\ InUnit(in.vuln_high))
        THEN <<"VULN_RANGE">> ELSE <<>>)
    \o (IF ~Ascending(in.loss_low, in.loss_medium, in.loss_high) THEN <<"LOSS_ORDER">> ELSE <<>>)
    \o (IF in.tef_low < 0 \/ in.tef_medium < 0 \/ in.tef_high < 0
        THEN <<"TEF_NEGATIVE">> ELSE <<>>)
    \o (IF in.loss_low < 0 \/ in.loss_medium < 0 \/ in.loss_high < 0
        THEN <<"LOSS_NEGATIVE">> ELSE <<>>)

\* the validation_errors list of the dashboard's scenario form
FormValidationErrors(in) ==
    (IF ~Ascending(in.tef_low, in.tef_medium, in.tef_high) THEN <<"TEF_ORDER">> ELSE <<>>)
    \o (IF ~Ascending(in.vuln_low, in.vuln_medium, in.vuln_high) THEN <<"VULN_ORDER">> ELSE <<>>)
    \o (IF ~Ascending(in.loss_low, in.loss_medium, in.loss_high) THEN <<"LOSS_ORDER">> ELSE <<>>)

\* the values --distribution takes: argparse choices
CliChoices == {"pert", "uniform"}


\* the outcome of a tool's simulation, as the latest call
ToolCall(op, in, iterations, dist_type, r) ==
    [Call(op, "") EXCEPT !.input = in, !.iterations = iterations,
        !.distribution = dist_type, !.err = r.err, !.result = r.result, !.drawn = r.drawn]

\* quick_risk_analysis.py main: the estimates are validated, then the number of
\* simulations is read and analyze_risk runs
QuickMain(in, iterations) ==
    /\ UNCHANGED <<calcs, prov, integ, session>>
    /\ IF QuickValidationErrors(in) # <<>>
       THEN /\ last' = [Call("quick_main", "") EXCEPT !.input = in,
                           !.err = "INPUT VALIDATION FAILED",
                           !.errors = QuickValidationErrors(in)]
            /\ UNCHANGED <<rng, hist>>
       ELSE LET r == analyze_risk(rng, Params(in.tef_low, in.tef_medium, in.tef_high),
                                  Params(in.vuln_low, in.vuln_medium, in.vuln_high),
                                  Params(in.loss_low, in.loss_medium, in.loss_high),
                                  iterations, NoSeed)
            IN  /\ rng' = r.g
                /\ hist' = Disturb(hist, "", r.drawn > 0)
                /\ last' = ToolCall("quick_main", in, iterations, "pert", r)

\* FAIRCalculator.run_simulation(tef_params, vuln_params, loss_params, iterations,
\* dist_type), called directly
DashboardRunSimulation(in, iterations, dist_type) ==
    /\ UNCHANGED <<calcs, prov, integ, session>>
    /\ LET r == FAIRCalculator_run_simulation(rng,
                    Params(in.tef_low, in.tef_medium, in.tef_high),
                    Params(in.vuln_low, in.vuln_medium, in.vuln_high),
                    Params(in.loss_low, in.loss_medium, in.loss_high),
                    iterations, dist_type)
       IN  /\ rng' = r.g
           /\ hist' = Disturb(hist, "", r.drawn > 0)
           /\ last' = ToolCall("FAIRCalculator.run_simulation", in, iterations,
                               dist_type, r)

\* fair_risk_calculator.py --quick --iterations n --distribution arg: the parser, the
\* calculator's construction, add_scenario and run_simulation of main
CliQuick(arg, in, iterations) ==
    /\ UNCHANGED <<calcs, prov, integ, session>>
    /\ IF arg \notin CliChoices
       THEN /\ last' = [Call("cli_quick", "") EXCEPT !.input = in,
                           !.iterations = iterations, !.distribution = arg,
                           !.err = "argument --distribution: invalid choice"]
            /\ UNCHANGED <<rng, hist>>
       ELSE IF IterationsError(iterations) # ""
       THEN /\ last' = [Call("cli_quick", "") EXCEPT !.input = in,
                           !.iterations = iterations, !.distribution = arg,
                           !.err = IterationsError(iterations)]
            /\ UNCHANGED <<rng, hist>>
       ELSE IF ValidationErrors(in) # <<>>
       THEN /\ last' = [Call("cli_quick", "") EXCEPT !.input = in,
                           !.iterations = iterations, !.distribution = arg,
                           !.err = "Validation failed",
                           !.errors = ValidationErrors(in)]
            /\ UNCHANGED <<rng, hist>>
       ELSE LET calculator == [iterations |-> iterations,
                               scenarios |-> <<MakeScenario(in)>>,
                               simulation_results |-> <<>>, live |-> TRUE]
                r == run_simulation(calculator, rng, in.scenario_id, arg)
            IN  /\ rng' = r.g
                /\ hist' = Disturb(hist, "", r.drawn > 0)
                /\ last' = ToolCall("cli_quick", in, iterations, arg, r)

\* new_scenario of the dashboard's form
FormScenario(in) ==
    [id |-> in.scenario_id,
     name |-> in.description,
     tef |-> Params(in.tef_low, in.tef_medium, in.tef_high),
     vuln |-> Params(in.vuln_low, in.vuln_medium, in.vuln_high),
     loss |-> Params(in.loss_low, in.loss_medium, in.loss_high)]

\* the form's "Add Scenario" button, with the id, the name and the nine numbers typed
FormSubmit(in) ==
    /\ UNCHANGED <<rng, calcs, hist, prov, integ>>
    /\ IF in.description = ""
       THEN /\ last' = [Call("form_submit", "") EXCEPT !.input = in,
                           !.err = "Please provide a scenario name"]
            /\ UNCHANGED session
       ELSE IF FormValidationErrors(in) # <<>>
       THEN /\ last' = [Call("form_submit", "") EXCEPT !.input = in,
                           !.err = "Input Validation Failed",
                           !.errors = FormValidationErrors(in)]
            /\ UNCHANGED session
       ELSE /\ session' = [session EXCEPT
                              !.scenarios = Append(@, FormScenario(in)),
                              !.current_scenario_id = @ + 1]
            /\ last' = [Call("form_submit", "") EXCEPT !.input = in]

\* one call of an entry point of one of the three tools
EntryInputs == {in \in LifecycleInputs : in.scenario_id = "S1"}
CliArgs == {"pert", "triangular", "uniform", "gaussian"}

NextEntry ==
    /\ last.op = "start"
    /\ \/ \E in \in EntryInputs, n \in IterationChoices : QuickMain(in, n)
       \/ \E in \in EntryInputs, n \in IterationChoices, d \in DistributionChoices :
              DashboardRunSimulation(in, n, d)
       \/ \E arg \in CliArgs, in \in EntryInputs, n \in IterationChoices :
              CliQuick(arg, in, n)

SpecEntry == Init /\ [][NextEntry]_vars


----------------------------------------------------------------------------
(* The dashboard's session: the scenario list and the store of results,     *)
(* under the buttons of the sidebar and of the first two tabs.              *)

\* a number given in hundredths, on a grid of den steps per unit
Grid(hundredths, den) == (hundredths * den + 50) \div 100

\* sample_scenarios, with the vulnerabilities on the grid of VulnDen and the losses
\* in millions of dollars
sample_scenarios ==
    <<[id |-> "S1", name |-> "Data Breach - Customer PII",
       tef |-> Params(1, 3, 6),
       vuln |-> Params(Grid(20, VulnDen), Grid(50, VulnDen), Grid(85, VulnDen)),
       loss |-> Params(Grid(50, 1), Grid(208, 1), Grid(350, 1))],
      [id |-> "S2", name |-> "Ransomware Attack",
       tef |-> Params(2, 5, 10),
       vuln |-> Params(Grid(10, VulnDen), Grid(30, VulnDen), Grid(60, VulnDen)),
       loss |-> Params(Grid(25, 1), Grid(150, 1), Grid(500, 1))],
      [id |-> "S3", name |-> "Insider Threat",
       tef |-> Params(Grid(50, 1), 2, 4),
       vuln |-> Params(Grid(30, VulnDen), Grid(60, VulnDen), Grid(90, VulnDen)),
       loss |-> Params(Grid(10, 1), Grid(75, 1), Grid(200, 1))]>>

\* the sidebar's "Load Sample Scenarios" button
LoadSampleScenarios ==
    /\ UNCHANGED <<rng, calcs, hist, prov, integ>>
    /\ session' = [session EXCEPT !.scenarios = sample_scenarios]
    /\ last' = Call("load_sample_scenarios", "")

\* list.pop(i), i counted from 1
Pop(list, i) == [k \in 1..(Len(list) - 1) |-> IF k < i THEN list[k] ELSE list[k + 1]]

\* the "Remove" button of the i-th listed scenario
RemoveScenario(i) ==
    /\ UNCHANGED <<rng, calcs, hist, prov, integ>>
    /\ i \in 1..Len(session.scenarios)
    /\ session' = [session EXCEPT !.scenarios = Pop(@, i)]
    /\ last' = Call("remove_scenario", "")

RECURSIVE RunAllStore(_, _, _, _, _, _, _)
\* the loop of "Run All Simulations" from the k-th scenario on: each simulation's
\* results are stored under the scenario's id; an exception ends the loop
RunAllStore(scenarios, simulation_results, g, iterations, dist_type, k, drawn) ==
    IF k > Len(scenarios)
    THEN [simulation_results |-> simulation_results, g |-> g, err |-> "",
          done |-> k - 1, drawn |-> drawn]
    ELSE LET scenario == scenarios[k]
             r == FAIRCalculator_run_simulation(g, scenario.tef, scenario.vuln,
                                                scenario.loss, iterations, dist_type)
         IN  IF r.err # ""
             THEN [simulation_results |-> simulation_results, g |-> r.g, err |-> r.err,
                   done |-> k - 1, drawn |-> drawn + r.drawn]
             ELSE RunAllStore(scenarios,
                              (scenario.id :> [scenario |-> scenario,
                                               results |-> r.result[1]])
                                  @@ simulation_results,
                              r.g, iterations, dist_type, k + 1, drawn + r.drawn)

\* the "Run All Simulations" button, shown when the list is not empty, with the
\* sidebar's iterations and distribution type
RunAllSimulations(iterations, dist_type) ==
    /\ UNCHANGED <<calcs, prov, integ>>
    /\ session.scenarios # <<>>
    /\ LET r == RunAllStore(session.scenarios, session.simulation_results, rng,
                            iterations, dist_type, 1, 0)
       IN  /\ session' = [session EXCEPT !.simulation_results = r.simulation_results]
           /\ rng' = r.g
           /\ hist' = Disturb(hist, "", r.drawn > 0)
           /\ last' = [Call("run_all_simulations", "") EXCEPT
                          !.iterations = iterations, !.distribution = dist_type,
                          !.err = r.err, !.done = r.done, !.drawn = r.drawn]

\* scenarios typed into the form: two ids, estimates spread over a range or single
\* points
FormInputs ==
    {Input(id, e[1], e[2], e[3], e[4], e[5], e[6], e[7], e[8], e[9], e[10]) :
        id \in ScenarioIds, e \in {x \in Estimates : x[1] # "badloss"}}

MaxFormAdds == 2   \* scenarios added through the form in one session

\* the sidebar's number of iterations, a multiple of 1000 within 1000..100000, taken
\* as a multiple of the generator's period: the session's states then differ in the
\* list and the store alone
SidebarIterations == RngPeriod * MinIterations

NextDashboard ==
    \/ /\ session.current_scenario_id <= MaxFormAdds
       /\ \E in \in FormInputs : FormSubmit(in)
    \/ \E i \in 1..3 : RemoveScenario(i)
    \/ LoadSampleScenarios
    \/ \E d \in Distributions : RunAllSimulations(SidebarIterations, d)

\* a session just opened: init_session_state has run and no calculator exists
InitDashboard ==
    /\ integ = NoInteg /\ session = NoSession
    /\ rng = 0
    /\ calcs = [c \in CalcIds |-> NoCalc]
    /\ hist = [c \in CalcIds |-> NoHist]
    /\ prov = [c \in CalcIds |-> <<>>]
    /\ last = Call("start", "")

SpecDashboard == InitDashboard /\ [][NextDashboard]_vars

\* the same nine numbers given to each of the three tools: any TEF and any
\* vulnerability triple of the validation ranges, with a loss triple that is in
\* order, out of order or negative
LossTriples == {<<1, 1, 1>>, <<0, 1, 1>>, <<1, 0, 1>>, <<-1, 0, 1>>}

ThreeToolInputs ==
    {Input("S1", "d", t[1], t[2], t[3], v[1], v[2], v[3], l[1], l[2], l[3]) :
        t \in TefLossRange \X TefLossRange \X TefLossRange,
        v \in VulnRange \X VulnRange \X VulnRange,
        l \in LossTriples}

NextThreeTools ==
    /\ last.op = "__init__"
    /\ \/ \E in \in ThreeToolInputs : AddScenario("calc1", in)
       \/ \E in \in ThreeToolInputs : QuickMain(in, DefaultIterations)
       \/ \E in \in ThreeToolInputs : FormSubmit(in)

SpecThreeTools == InitValidate /\ [][NextThreeTools]_vars

----------------------------------------------------------------------------
(* The six rules of a scenario, stated on the nine numbers of an input *)

RuleTefOrder(in) == in.tef_low <= in.tef_medium /\ in.tef_medium <= in.tef_high
RuleVulnOrder(in) == in.vuln_low <= in.vuln_medium /\ in.vuln_medium <= in.vuln_high
RuleVulnRange(in) ==
    \A v \in {in.vuln_low, in.vuln_medium, in.vuln_high} : 0 <= v /\ v <= VulnDen
RuleLossOrder(in) == in.loss_low <= in.loss_medium /\ in.loss_medium <= in.loss_high
RuleTefNonNegative(in) == \A v \in {in.tef_low, in.tef_medium, in.tef_high} : v >= 0
RuleLossNonNegative(in) == \A v \in {in.loss_low, in.loss_medium, in.loss_high} : v >= 0

AllRules(in) ==
    /\ RuleTefOrder(in) /\ RuleVulnOrder(in) /\ RuleVulnRange(in)
    /\ RuleLossOrder(in) /\ RuleTefNonNegative(in) /\ RuleLossNonNegative(in)

\* the messages an input must draw
ViolatedRules(in) ==
    {m \in {"TEF_ORDER", "VULN_ORDER", "VULN_RANGE", "LOSS_ORDER", "TEF_NEGATIVE",
            "LOSS_NEGATIVE"} :
        \/ m = "TEF_ORDER" /\ ~RuleTefOrder(in)
        \/ m = "VULN_ORDER" /\ ~RuleVulnOrder(in)
        \/ m = "VULN_RANGE" /\ ~RuleVulnRange(in)
        \/ m = "LOSS_ORDER" /\ ~RuleLossOrder(in)
        \/ m = "TEF_NEGATIVE" /\ ~RuleTefNonNegative(in)
        \/ m = "LOSS_NEGATIVE" /\ ~RuleLossNonNegative(in)}

\* scenario s holds exactly the nine numbers, the id and the description of input in
Holds(s, in) ==
    /\ s.id = in.scenario_id /\ s.description = in.description
    /\ s.tef.low = in.tef_low /\ s.tef.medium = in.tef_medium /\ s.tef.high = in.tef_high
    /\ s.vulnerability.low = in.vuln_low /\ s.vulnerability.medium = in.vuln_medium
    /\ s.vulnerability.high = in.vuln_high
    /\ s.loss_magnitude.low = in.loss_low /\ s.loss_magnitude.medium = in.loss_medium
    /\ s.loss_magnitude.high = in.loss_high

SinglePoints(in) ==
    /\ in.tef_low = in.tef_medium /\ in.tef_medium = in.tef_high
    /\ in.vuln_low = in.vuln_medium /\ in.vuln_medium = in.vuln_high
    /\ in.loss_low = in.loss_medium /\ in.loss_medium = in.loss_high

----------------------------------------------------------------------------
\* C1: add_scenario on a fresh calculator stores the scenario if and only if all six
\* rules hold (orders of TEF, vulnerability and loss; vulnerability in [0,1]; TEF and
\* loss not negative); otherwise it raises the validation error and stores nothing.
\* In particular an input with low = medium = high in every factor is stored.
C1_AcceptedIffAllRules ==
    last.op = "add_scenario" =>
        LET list == calcs[last.calc].scenarios
        IN  /\ AllRules(last.input) <=> last.err = ""
            /\ AllRules(last.input) => Len(list) = 1 /\ Holds(list[1], last.input)
            /\ ~AllRules(last.input) => list = <<>> /\ last.err = "Validation failed"
            /\ SinglePoints(last.input) /\ RuleVulnRange(last.input)
               /\ RuleTefNonNegative(last.input) /\ RuleLossNonNegative(last.input)
               => Len(list) = 1

\* an input with low = medium = high in every factor was accepted and stored
C1_Witness ==
    /\ last.op = "add_scenario" /\ last.err = ""
    /\ SinglePoints(last.input)
    /\ Len(calcs[last.calc].scenarios) = 1

\* C2: the error add_scenario raises carries one message per violated rule and no
\* other message, whatever combination of rules the input violates; no check is
\* skipped because an earlier one failed.
C2_ErrorListsExactlyViolatedRules ==
    last.op = "add_scenario" =>
        /\ {last.errors[k] : k \in 1..Len(last.errors)} = ViolatedRules(last.input)
        /\ Len(last.errors) = Cardinality(ViolatedRules(last.input))
        /\ last.err # "" <=> last.errors # <<>>

\* a rejected input that violates all six rules at once, and the error lists six messages
C2_Witness ==
    /\ last.op = "add_scenario" /\ last.err = "Validation failed"
    /\ Cardinality(ViolatedRules(last.input)) = 6
    /\ Len(last.errors) = 6

----------------------------------------------------------------------------
\* a stored scenario obeys the invariant of a three-point estimate
WellFormed(s) ==
    /\ s.tef.low <= s.tef.medium /\ s.tef.medium <= s.tef.high
    /\ s.vulnerability.low <= s.vulnerability.medium
    /\ s.vulnerability.medium <= s.vulnerability.high
    /\ s.loss_magnitude.low <= s.loss_magnitude.medium
    /\ s.loss_magnitude.medium <= s.loss_magnitude.high
    /\ 0 <= s.vulnerability.low /\ s.vulnerability.high <= VulnDen
    /\ s.tef.low >= 0 /\ s.loss_magnitude.low >= 0

\* C3: the stored scenario list of a calculator is the sequence of accepted inputs in
\* call order: an accepted add_scenario appends exactly one entry, holding the input,
\* at the end; a rejected add_scenario changes neither the list nor the result cache;
\* no other call changes the list.  So every stored scenario is well formed.
C3_ListIsAcceptedInputsInOrder ==
    /\ [](\A c \in CalcIds : \A k \in 1..Len(calcs[c].scenarios) :
              WellFormed(calcs[c].scenarios[k]))
    /\ [][\A c \in CalcIds :
              LET old == calcs[c].scenarios
                  new == calcs'[c].scenarios
              IN  /\ IF last'.op = "add_scenario" /\ last'.calc = c /\ last'.err = ""
                     THEN /\ Len(new) = Len(old) + 1
                          /\ \A k \in 1..Len(old) : new[k] = old[k]
                          /\ Holds(new[Len(new)], last'.input)
                     ELSE new = old
                  /\ last'.op = "add_scenario" /\ last'.err # "" => calcs' = calcs
         ]_vars

\* a calculator holds one scenario and a cached result, and the last call was an
\* add_scenario that was rejected
C3_Witness ==
    /\ last.op = "add_scenario" /\ last.err # ""
    /\ Len(calcs[last.calc].scenarios) = 1
    /\ DOMAIN calcs[last.calc].simulation_results # {}

\* C4: a calculator exists only with 1000 <= iterations <= 1000000: the constructor
\* raises for a count below 1000 or above 1000000 and succeeds for every other count
\* (1000, 10000 and 1000000 among them); every cached result records the iteration
\* count of its calculator, which lies in that range.
C4_IterationsWithinRange ==
    /\ \A c \in CalcIds : calcs[c].live =>
          /\ 1000 <= calcs[c].iterations /\ calcs[c].iterations <= 1000000
          /\ \A id \in DOMAIN calcs[c].simulation_results :
                calcs[c].simulation_results[id].iterations = calcs[c].iterations
    /\ last.op = "__init__" =>
          /\ last.err # "" <=> (last.iterations < 1000 \/ last.iterations > 1000000)
          /\ last.err = "" =>
                calcs[last.calc].live /\ calcs[last.calc].iterations = last.iterations

\* a calculator constructed with the boundary count 1000000 holds a cached result
C4_Witness ==
    \E c \in CalcIds :
        /\ calcs[c].live /\ calcs[c].iterations = 1000000
        /\ \E id \in DOMAIN calcs[c].simulation_results :
              calcs[c].simulation_results[id].iterations = 1000000

\* the ids of the scenarios calculator c holds
StoredIds(c) == {calcs[c].scenarios[k].id : k \in 1..Len(calcs[c].scenarios)}

\* C5: run_simulation on a stored scenario with a kind other than 'pert' and
\* 'triangular' raises the error that names the kind, draws nothing from the generator
\* and changes neither the result cache nor the scenario list.
C5_UnknownKindRejected ==
    [][(/\ last'.op = "run_simulation"
        /\ last'.scenario_id \in StoredIds(last'.calc)
        /\ last'.distribution \notin {"pert", "triangular"})
       => /\ last'.err = "Invalid distribution type"
          /\ last'.named = last'.distribution
          /\ last'.result = <<>>
          /\ last'.drawn = 0
          /\ rng' = rng
          /\ calcs' = calcs
      ]_vars

\* run_simulation of a stored scenario with kind 'gaussian' has raised
C5_Witness ==
    /\ last.op = "run_simulation" /\ last.distribution = "gaussian"
    /\ last.scenario_id \in StoredIds(last.calc)
    /\ last.err = "Invalid distribution type"

\* C6: run_simulation with an id that no stored scenario has raises the not-found
\* error whatever the distribution argument is, draws nothing and changes neither the
\* result cache nor the scenario list.
C6_UnknownIdRejected ==
    [][(/\ last'.op = "run_simulation"
        /\ last'.scenario_id \notin StoredIds(last'.calc))
       => /\ last'.err = "Scenario not found"
          /\ last'.named = last'.scenario_id
          /\ last'.result = <<>>
          /\ last'.drawn = 0
          /\ rng' = rng
          /\ calcs' = calcs
      ]_vars

\* an unknown id was looked up with an invalid kind on a calculator that holds a
\* scenario, and the error is the not-found error
C6_Witness ==
    /\ last.op = "run_simulation" /\ last.distribution = "gaussian"
    /\ calcs[last.calc].scenarios # <<>>
    /\ last.scenario_id \notin StoredIds(last.calc)
    /\ last.err = "Scenario not found"

----------------------------------------------------------------------------
\* the five sample arrays of a result
Samples(r) ==
    <<r.tef_samples, r.vuln_samples, r.loss_samples, r.lef_samples, r.ale_samples>>

\* C7: with a seed, repeated runs with the same scenario, iteration count,
\* distribution kind and seed give identical sample arrays and identical statistics,
\* also when the runs are repeated run_simulation calls on one seeded calculator.
C7_RepeatedRunsIdentical ==
    [][\A id \in ScenarioIds :
          (/\ last'.op = "run_simulation" /\ last'.err = "" /\ last'.scenario_id = id
           /\ hist[last'.calc].seed # NoSeed
           /\ id \in DOMAIN calcs[last'.calc].simulation_results
           /\ calcs[last'.calc].simulation_results[id].distribution_type
                 = last'.distribution)
          => /\ Samples(last'.result[1])
                   = Samples(calcs[last'.calc].simulation_results[id])
             /\ ResultStatistics(last'.result[1])
                   = ResultStatistics(calcs[last'.calc].simulation_results[id])
      ]_vars

\* the estimates of the scenario that run_simulation(id) simulates on calculator c
EstimatesOf(c, id) ==
    LET s == FindScenario(calcs[c].scenarios, id)[1]
    IN  <<s.tef, s.vulnerability, s.loss_magnitude>>

\* calculator c was seeded, and its cached result of id comes from a run_simulation
\* call made right after c's construction: nothing seeded the generator or drew from
\* it in between
RunDirectlyAfterSeeding(c, id) ==
    /\ calcs[c].live /\ hist[c].seed # NoSeed
    /\ id \in DOMAIN calcs[c].simulation_results
    /\ prov[c][id].first /\ prov[c][id].alone

SameSetup(c1, id1, c2, id2) ==
    /\ hist[c1].seed = hist[c2].seed
    /\ calcs[c1].iterations = calcs[c2].iterations
    /\ EstimatesOf(c1, id1) = EstimatesOf(c2, id2)
    /\ calcs[c1].simulation_results[id1].distribution_type
          = calcs[c2].simulation_results[id2].distribution_type

\* C8: two calculators constructed with the same seed and the same iteration count,
\* each given the same scenario and each run with the same kind directly after its own
\* construction, report the same mean_loss.
C8_SameSeedSameMean ==
    \A c1 \in CalcIds, c2 \in CalcIds, id1 \in ScenarioIds, id2 \in ScenarioIds :
        (/\ RunDirectlyAfterSeeding(c1, id1) /\ RunDirectlyAfterSeeding(c2, id2)
         /\ SameSetup(c1, id1, c2, id2))
        => ResultStatistics(calcs[c1].simulation_results[id1]).mean_loss
              = ResultStatistics(calcs[c2].simulation_results[id2]).mean_loss

\* two different calculators with the same seed, iterations, scenario and kind have
\* each been run directly after construction
C8_Witness ==
    \E c1 \in CalcIds, c2 \in CalcIds :
        /\ c1 # c2
        /\ RunDirectlyAfterSeeding(c1, "S1") /\ RunDirectlyAfterSeeding(c2, "S1")
        /\ SameSetup(c1, "S1", c2, "S1")

\* the result run_simulation(id, kind) gives when the generator is as seeding with
\* c's seed leaves it
ExpectedFromSeed(c, id, distribution) ==
    run_simulation(calcs[c], SeedState(hist[c].seed), id, distribution).result[1]

\* C9: the samples of the first run of a calculator constructed with seed s depend
\* only on (s, scenario, iterations, kind): whatever other calculators were
\* constructed or run between its construction and its run, the samples are those the
\* generator gives right after seeding with s.
C9_SamplesDependOnlyOnOwnSeed ==
    \A c \in CalcIds : \A id \in DOMAIN calcs[c].simulation_results :
        (calcs[c].live /\ hist[c].seed # NoSeed /\ prov[c][id].first)
        => Samples(calcs[c].simulation_results[id])
              = Samples(ExpectedFromSeed(c, id,
                           calcs[c].simulation_results[id].distribution_type))

\* the indices of an array of n elements at which the claims compare elements: the
\* first and the last 2 * RngPeriod, which meet every position of the cycle
Indices(n) ==
    LET w == 2 * RngPeriod
    IN  (0..((IF n < w THEN n ELSE w) - 1)) \cup ((IF n < w THEN 0 ELSE n - w)..(n - 1))

\* C10: in every result, lef[i] = tef[i] * vuln[i] and ale[i] = lef[i] * loss[i] at
\* every index, the five arrays have exactly `iterations` elements, and the result
\* records the calculator's iteration count and the kind the run was asked for.
C10_FairArithmetic ==
    /\ \A c \in CalcIds : \A id \in DOMAIN calcs[c].simulation_results :
          LET r == calcs[c].simulation_results[id]
          IN  /\ r.iterations = calcs[c].iterations
              /\ \A k \in 1..5 : Samples(r)[k].size = r.iterations
              /\ \A i \in Indices(r.iterations) :
                    /\ At(r.lef_samples, i) = At(r.tef_samples, i) * At(r.vuln_samples, i)
                    /\ At(r.ale_samples, i) = At(r.lef_samples, i) * At(r.loss_samples, i)
    /\ (last.op = "run_simulation" /\ last.err = "") =>
          /\ last.result[1].distribution_type = last.distribution
          /\ last.result[1].scenario_id = last.scenario_id
          /\ last.result[1] = calcs[last.calc].simulation_results[last.scenario_id]

\* a triangular run has succeeded and its tef, vuln and ale samples are not constant
C10_Witness ==
    /\ last.op = "run_simulation" /\ last.err = "" /\ last.distribution = "triangular"
    /\ \E i \in Idx, j \in Idx :
          /\ last.result[1].tef_samples.cyc[i] # last.result[1].tef_samples.cyc[j]
          /\ last.result[1].vuln_samples.cyc[i] # last.result[1].vuln_samples.cyc[j]
          /\ last.result[1].ale_samples.cyc[i] # last.result[1].ale_samples.cyc[j]

----------------------------------------------------------------------------
\* the ids for which some run on calculator c has succeeded
SucceededIds(c) == DOMAIN prov[c]

\* the ids of the first n stored scenarios of calculator c
FirstIds(c, n) == {calcs[c].scenarios[k].id : k \in 1..n}

\* C11: the result cache is last-run-wins per scenario id.  It has an entry for an id
\* exactly when some run for that id has succeeded, and the entry's scenario_id is its
\* key; a successful run_simulation leaves its returned result under its id and
\* changes no other entry; a failed run_simulation, and every add_scenario, changes no
\* entry; run_all_scenarios changes only the entries of the scenarios it simulated,
\* and a returned batch leaves under each id the result of the last row with that id.
C11_CacheIsLastRunWins ==
    /\ [](\A c \in CalcIds :
             /\ DOMAIN calcs[c].simulation_results = SucceededIds(c)
             /\ \A id \in DOMAIN calcs[c].simulation_results :
                   calcs[c].simulation_results[id].scenario_id = id)
    /\ [][\A c \in CalcIds :
             LET old == calcs[c].simulation_results
                 new == calcs'[c].simulation_results
                 id == last'.scenario_id
             IN  /\ (last'.op = "run_simulation" /\ last'.calc = c /\ last'.err = "")
                    => /\ DOMAIN new = DOMAIN old \cup {id}
                       /\ new[id] = last'.result[1]
                       /\ \A x \in DOMAIN old \ {id} : new[x] = old[x]
                 /\ (last'.op = "run_simulation" /\ last'.err # "") => new = old
                 /\ last'.op = "add_scenario" => new = old
                 /\ (last'.op = "run_all_scenarios" /\ last'.calc = c)
                    => /\ DOMAIN new = DOMAIN old \cup FirstIds(c, last'.done)
                       /\ \A x \in DOMAIN old \ FirstIds(c, last'.done) : new[x] = old[x]
                       /\ \A k \in 1..Len(last'.rows) :
                             (\A m \in (k + 1)..Len(last'.rows) :
                                 last'.rows[m].scenario.id # last'.rows[k].scenario.id)
                             => new[last'.rows[k].scenario.id] = last'.rows[k].result
         ]_vars

\* the second run on a calculator was a successful run_simulation; its result is the
\* entry of its id, and the cache still holds another id's entry, with other samples
C11_Witness ==
    /\ last.op = "run_simulation" /\ last.err = ""
    /\ hist[last.calc].runs = MaxRuns
    /\ Cardinality(DOMAIN calcs[last.calc].simulation_results) = 2
    /\ calcs[last.calc].simulation_results[last.scenario_id] = last.result[1]
    /\ \E id \in DOMAIN calcs[last.calc].simulation_results :
          id # last.scenario_id
          /\ Samples(calcs[last.calc].simulation_results[id]) # Samples(last.result[1])

----------------------------------------------------------------------------
\* C12: in every statistics record var_95 equals percentile_95 exactly, and the CVaR
\* tail is selected with that same value: cvar_95 is the mean of the samples that are
\* >= var_95.
C12_VarIsPercentile95 ==
    last.op = "statistics" =>
        LET ale == last.result[1].ale_samples
            st == last.result[1].statistics
            T == {v \in Values(ale) : 100 * v >= st.var_95}
        IN  /\ st.var_95 = st.percentile_95
            /\ st.cvar_95 = [num |-> SumIn(ale, T), den |-> CountIn(ale, T)]

\* statistics of an array in which some samples equal var_95 and others lie below it
C12_Witness ==
    /\ last.op = "statistics"
    /\ \E j \in Idx : 100 * last.result[1].ale_samples.cyc[j] = last.result[1].statistics.var_95
    /\ \E j \in Idx : 100 * last.result[1].ale_samples.cyc[j] < last.result[1].statistics.var_95
    /\ last.result[1].statistics.cvar_95.den < last.result[1].ale_samples.size

\* C13: cvar_95 is the mean of the samples >= var_95; that set is never empty; and
\* var_95 <= cvar_95 <= max_loss, with cvar_95 the float that np.mean returns.
C13_CvarBetweenVarAndMax ==
    last.op = "statistics" =>
        LET ale == last.result[1].ale_samples
            st == last.result[1].statistics
        IN  /\ TailMask(ale, st.var_95) # {}
            /\ st.cvar_95.den > 0
            /\ LET cvar_95 == NpCvar(ale)
               IN  st.var_95 <= 100 * cvar_95 /\ cvar_95 <= st.max_loss

\* C14: every statistics record is ordered, min_loss <= percentile_10 <= percentile_25
\* <= percentile_50 <= percentile_75 <= percentile_90 <= percentile_95 <= percentile_99
\* <= max_loss; median_loss equals percentile_50; and min_loss <= mean_loss <= max_loss,
\* with mean_loss the float that np.mean returns.
C14_StatisticsOrdered ==
    last.op = "statistics" =>
        LET ale == last.result[1].ale_samples
            st == last.result[1].statistics
        IN  /\ 100 * st.min_loss <= st.percentile_10
            /\ st.percentile_10 <= st.percentile_25
            /\ st.percentile_25 <= st.percentile_50
            /\ st.percentile_50 <= st.percentile_75
            /\ st.percentile_75 <= st.percentile_90
            /\ st.percentile_90 <= st.percentile_95
            /\ st.percentile_95 <= st.percentile_99
            /\ st.percentile_99 <= 100 * st.max_loss
            /\ st.median_loss = st.percentile_50
            /\ LET mean_loss == NpMean(ale)
               IN  st.min_loss <= mean_loss /\ mean_loss <= st.max_loss

----------------------------------------------------------------------------
\* the scenario that the latest run_simulation call simulated
RunScenario == FindScenario(calcs[last.calc].scenarios, last.scenario_id)[1]

\* every element of array a is v
AllEqual(a, v) == \A j \in Idx : a.cyc[j] = v

\* C15: for a stored scenario whose three factors are single points, a PERT run gives
\* every ale sample equal to TEF * Vulnerability * LossMagnitude, so min_loss and
\* max_loss are that product, std_loss (as np.std returns it) is 0 and mean_loss (as
\* np.mean returns it) is that product.
C15_SinglePointsGiveTheProduct ==
    (/\ last.op = "run_simulation" /\ last.distribution = "pert"
     /\ last.scenario_id \in StoredIds(last.calc)
     /\ RunScenario.tef.low = RunScenario.tef.high
     /\ RunScenario.vulnerability.low = RunScenario.vulnerability.high
     /\ RunScenario.loss_magnitude.low = RunScenario.loss_magnitude.high)
    => LET product == RunScenario.tef.medium * RunScenario.vulnerability.medium
                         * RunScenario.loss_magnitude.medium
           ale == last.result[1].ale_samples
       IN  /\ last.err = ""
           /\ AllEqual(ale, product)
           /\ ResultStatistics(last.result[1]).min_loss = product
           /\ ResultStatistics(last.result[1]).max_loss = product
           /\ NpVariance(ale) = 0
           /\ NpMean(ale) = product

\* C16: for a stored scenario whose three vulnerability points are 0, whatever its TEF
\* and loss estimates, a PERT run gives every lef and every ale sample 0, so mean_loss
\* and max_loss are 0, probability_zero_loss is 1 and every probability_over_* is 0.
C16_ZeroVulnerabilityGivesZeroLoss ==
    (/\ last.op = "run_simulation" /\ last.distribution = "pert"
     /\ last.scenario_id \in StoredIds(last.calc)
     /\ RunScenario.vulnerability.low = 0 /\ RunScenario.vulnerability.medium = 0
     /\ RunScenario.vulnerability.high = 0)
    => /\ last.err = ""
       /\ AllEqual(last.result[1].lef_samples, 0)
       /\ AllEqual(last.result[1].ale_samples, 0)
       /\ LET st == ResultStatistics(last.result[1])
          IN  /\ NpMean(last.result[1].ale_samples) = 0
              /\ st.mean_loss.num = 0
              /\ st.max_loss = 0
              /\ st.probability_zero_loss.num = st.probability_zero_loss.den
              /\ st.probability_over_1m.num = 0
              /\ st.probability_over_5m.num = 0
              /\ st.probability_over_10m.num = 0

\* a PERT run of a zero-vulnerability scenario whose TEF and loss samples vary
C16_Witness ==
    /\ last.op = "run_simulation" /\ last.distribution = "pert" /\ last.err = ""
    /\ RunScenario.vulnerability.high = 0
    /\ \E i \in Idx, j \in Idx :
          /\ last.result[1].tef_samples.cyc[i] # last.result[1].tef_samples.cyc[j]
          /\ last.result[1].loss_samples.cyc[i] # last.result[1].loss_samples.cyc[j]
          /\ last.result[1].tef_samples.cyc[i] * last.result[1].loss_samples.cyc[i] > 0
    /\ AllEqual(last.result[1].ale_samples, 0)

----------------------------------------------------------------------------
\* the tef, vulnerability and loss samples that a simulation of the estimates of
\* scenario s draws when the generator is in state g
SimulationOf(s, iterations, distribution, g) ==
    LET t == Sample(distribution, g, s.tef, iterations)
        v == Sample(distribution, t.g, s.vulnerability, iterations)
        l == Sample(distribution, v.g, s.loss_magnitude, iterations)
    IN  <<t.arr, v.arr, l.arr>>

\* C17: a run_all_scenarios call that returns gives one summary row per stored
\* scenario, in stored order; row k carries the id and the description of the k-th
\* stored scenario and the statistics of a simulation of that scenario's own
\* estimates; afterwards every stored id has an entry in the result cache.
C17_OneRowPerScenario ==
    (last.op = "run_all_scenarios" /\ last.err = "") =>
        LET list == calcs[last.calc].scenarios
        IN  /\ Len(last.rows) = Len(list)
            /\ StoredIds(last.calc) \subseteq DOMAIN calcs[last.calc].simulation_results
            /\ \A k \in 1..Len(last.rows) :
                  LET r == last.rows[k].result
                  IN  /\ RowOf(last.rows[k]).scenario_id = list[k].id
                      /\ RowOf(last.rows[k]).description = list[k].description
                      /\ RowOf(last.rows[k]).mean_loss = Statistics(r.ale_samples).mean_loss
                      /\ \E g \in 0..(RngPeriod - 1) :
                            <<r.tef_samples, r.vuln_samples, r.loss_samples>>
                               = SimulationOf(list[k], r.iterations, last.distribution, g)

\* C18: when the simulation of a scenario fails during run_all_scenarios the batch
\* stops there: the call raises that simulation's error and returns no rows, no
\* scenario after the failing one is simulated (nothing more is drawn and no entry of
\* an id outside the processed ones changes), and the scenarios processed before the
\* failure keep the cache entries this batch wrote for them.
C18_BatchStopsAtFirstFailure ==
    [][(last'.op = "run_all_scenarios" /\ last'.err # "") =>
          LET c == last'.calc
              list == calcs[c].scenarios
              n == last'.done
              old == calcs[c].simulation_results
              new == calcs'[c].simulation_results
          IN  /\ n < Len(list)
              /\ last'.rows = <<>>
              /\ last'.err \in {"Invalid distribution type", "left == right"}
              /\ last'.err = "Invalid distribution type" =>
                    n = 0 /\ last'.named = last'.distribution
              /\ last'.drawn <= (3 * n + 2) * calcs[c].iterations
              /\ calcs'[c].scenarios = list
              /\ DOMAIN new = DOMAIN old \cup FirstIds(c, n)
              /\ \A id \in DOMAIN old \ FirstIds(c, n) : new[id] = old[id]
              /\ \A id \in FirstIds(c, n) :
                    /\ new[id].scenario_id = id
                    /\ new[id].distribution_type = last'.distribution
      ]_vars

\* a batch over two scenarios failed at the second one, and the cache holds the entry
\* the batch wrote for the first
C18_Witness ==
    /\ last.op = "run_all_scenarios" /\ last.err # "" /\ last.done = 1
    /\ Len(calcs[last.calc].scenarios) = 2
    /\ hist[last.calc].runs = 1
    /\ DOMAIN calcs[last.calc].simulation_results = {calcs[last.calc].scenarios[1].id}
    /\ calcs[last.calc].scenarios[2].id # calcs[last.calc].scenarios[1].id

----------------------------------------------------------------------------
\* the latest call was a direct call of a sampler
SamplerCalled(l) == l.op \in {"_pert_distribution", "_triangular_distribution"}

\* C19: for every triple low <= medium <= high and every count n the PERT sampler
\* returns exactly n values, each within [low, high]; when low = high it returns n
\* copies of medium without drawing and without computing the shape parameters; when
\* low < high the shape parameters satisfy alpha >= 1, beta >= 1, alpha + beta = 6.
C19_PertWithinBounds ==
    (/\ last.op = "_pert_distribution"
     /\ last.low <= last.medium /\ last.medium <= last.high)
    => /\ last.err = ""
       /\ last.arr.size = last.size
       /\ \A i \in Indices(last.size) :
             last.low <= At(last.arr, i) /\ At(last.arr, i) <= last.high
       /\ last.low = last.high =>
             /\ \A i \in Indices(last.size) : At(last.arr, i) = last.medium
             /\ last.drawn = 0
       /\ last.low < last.high =>
             /\ last.drawn = last.size
             /\ AlphaNum(last.low, last.medium, last.high) >= last.high - last.low
             /\ BetaNum(last.low, last.medium, last.high) >= last.high - last.low
             /\ AlphaNum(last.low, last.medium, last.high)
                   + BetaNum(last.low, last.medium, last.high)
                = (2 + LambdaParam) * (last.high - last.low)

\* a PERT call with low < medium < high whose samples reach both low and high
C19_Witness ==
    /\ last.op = "_pert_distribution" /\ last.err = ""
    /\ last.low < last.medium /\ last.medium < last.high
    /\ last.size >= MinIterations
    /\ \E i \in Idx, j \in Idx : last.arr.cyc[i] = last.low /\ last.arr.cyc[j] = last.high

\* C20: both samplers, given a triple with medium > high or medium < low, raise their
\* distribution error before drawing: nothing is returned, nothing is drawn and the
\* generator is left as it was.
C20_InvalidTripleRejectedBeforeDrawing ==
    [][(SamplerCalled(last') /\ ~(last'.low <= last'.medium /\ last'.medium <= last'.high))
       => /\ last'.err = (IF last'.op = "_pert_distribution"
                          THEN "PERT distribution requires low <= medium <= high"
                          ELSE "Triangular distribution requires low <= medium <= high")
          /\ last'.arr = NoArray
          /\ last'.drawn = 0
          /\ rng' = rng
      ]_vars

\* the triangular sampler has rejected a triple with medium > high
C20_Witness ==
    /\ last.op = "_triangular_distribution"
    /\ last.low < last.high /\ last.medium > last.high
    /\ last.err = "Triangular distribution requires low <= medium <= high"
    /\ last.drawn = 0

----------------------------------------------------------------------------
\* C21: a triangular run of any stored scenario raises no error, and a factor whose
\* three points are equal is sampled as the constant array of its medium value, as
\* the PERT sampler does.
C21_TriangularRunsEveryAcceptedScenario ==
    (/\ last.op = "run_simulation" /\ last.distribution = "triangular"
     /\ last.scenario_id \in StoredIds(last.calc))
    => /\ last.err = ""
       /\ RunScenario.tef.low = RunScenario.tef.high
             => AllEqual(last.result[1].tef_samples, RunScenario.tef.medium)
       /\ RunScenario.vulnerability.low = RunScenario.vulnerability.high
             => AllEqual(last.result[1].vuln_samples, RunScenario.vulnerability.medium)
       /\ RunScenario.loss_magnitude.low = RunScenario.loss_magnitude.high
             => AllEqual(last.result[1].loss_samples, RunScenario.loss_magnitude.medium)

----------------------------------------------------------------------------
\* the number of samples of array a that satisfy Cond, counted index by index
HowMany(a, Cond(_)) == FSum([j \in {i \in Idx : Cond(a.cyc[i])} |-> Count(a.size, j)])

\* C22: for an ale array of n samples probability_zero_loss is (the number of samples
\* equal to 0) / n and probability_over_1m, _5m, _10m are (the number of samples
\* strictly greater than 1000000, 5000000, 10000000) / n; so each lies in [0, 1],
\* over_10m <= over_5m <= over_1m, and zero_loss + over_1m <= 1.
C22_ProbabilitiesAreFractions ==
    last.op = "statistics" =>
        LET ale == last.result[1].ale_samples
            st == last.result[1].statistics
            n == ale.size
            zero == st.probability_zero_loss
            over1 == st.probability_over_1m
            over5 == st.probability_over_5m
            over10 == st.probability_over_10m
        IN  /\ zero = [num |-> HowMany(ale, LAMBDA v : v = 0), den |-> n]
            /\ over1 = [num |-> HowMany(ale, LAMBDA v : v > OneMillion * VulnDen), den |-> n]
            /\ over5 = [num |-> HowMany(ale, LAMBDA v : v > FiveMillion * VulnDen), den |-> n]
            /\ over10 = [num |-> HowMany(ale, LAMBDA v : v > TenMillion * VulnDen), den |-> n]
            /\ \A pr \in {zero, over1, over5, over10} : 0 <= pr.num /\ pr.num <= pr.den
            /\ over10.num <= over5.num /\ over5.num <= over1.num
            /\ zero.num + over1.num <= n

\* statistics of an array with samples at 0, over 1000000, over 5000000 and over
\* 10000000: the four probabilities are positive, and the three over_* differ
C22_Witness ==
    /\ last.op = "statistics"
    /\ LET st == last.result[1].statistics
       IN  /\ 0 < st.probability_zero_loss.num
           /\ 0 < st.probability_over_10m.num
           /\ st.probability_over_10m.num < st.probability_over_5m.num
           /\ st.probability_over_5m.num < st.probability_over_1m.num
           /\ st.probability_zero_loss.num + st.probability_over_1m.num
                 = last.result[1].ale_samples.size

----------------------------------------------------------------------------
\* file f is on disk, can be read, and its digest is the one manifest m records
MatchesBaseline(m, files, f) ==
    /\ files[f].exists /\ files[f].readable
    /\ Sha256(files[f].content) = m[f].hash

Occurrences(s, x) == Cardinality({i \in 1..Len(s) : s[i] = x})

\* C24: after verify_all every file of the manifest is in exactly one of the lists
\* verified / modified / missing / errors: in verified when its content is the
\* baseline's, in modified when its content changed, in missing when it was deleted
\* since the baseline; and verify_all returned True exactly when every file of the
\* manifest is in the verified list.
C24_VerifyAllPartitionsTheManifest ==
    (last.op = "verify_all" /\ integ.verifier[1].calls > 0) =>
        LET v == integ.verifier[1]
            m == v.manifest[1]
            res == v.results
        IN  /\ \A f \in FileNames :
                  /\ Occurrences(res.verified, f) + Occurrences(res.modified, f)
                        + Occurrences(res.missing, f) + Occurrences(res.errors, f) = 1
                  /\ MatchesBaseline(m, integ.files, f) => Occurrences(res.verified, f) = 1
                  /\ (/\ m[f].hash # NoHash /\ integ.files[f].readable
                      /\ ~MatchesBaseline(m, integ.files, f))
                        => Occurrences(res.modified, f) = 1
                  /\ (m[f].status = "present" /\ ~integ.files[f].exists)
                        => Occurrences(res.missing, f) = 1
            /\ last.result[1].returned
                  <=> \A f \in FileNames : Occurrences(res.verified, f) > 0

----------------------------------------------------------------------------
\* the latest call entered a tool at a place that runs a simulation
EntryCalled == last.op \in {"quick_main", "FAIRCalculator.run_simulation", "cli_quick"}

\* C25: at every entry point a number of iterations outside [1000, 1000000] is
\* rejected with the range error of the calculator and nothing is sampled.
C25_IterationsCheckedAtEveryEntry ==
    (/\ EntryCalled
     /\ last.distribution \in {"pert", "triangular"}
     /\ ValidationErrors(last.input) = <<>>
     /\ (last.iterations < MinIterations \/ last.iterations > MaxIterations))
    => /\ last.err \in {"Iterations must be at least 1000",
                        "Iterations cannot exceed 1,000,000"}
       /\ last.result = <<>>
       /\ last.drawn = 0

----------------------------------------------------------------------------
\* the positions of the list of calculator c that hold the id
PositionsOf(c, id) == {k \in 1..Len(calcs[c].scenarios) : calcs[c].scenarios[k].id = id}

\* result r is a simulation of the estimates of scenario s, under s's description
ComputedFrom(r, s) ==
    /\ r.description = s.description
    /\ \E g \in 0..(RngPeriod - 1) :
          <<r.tef_samples, r.vuln_samples, r.loss_samples>>
             = SimulationOf(s, r.iterations, r.distribution_type, g)

\* C26: add_scenario accepts an input whose id is already stored, and the new
\* scenario becomes a further list entry; a run_simulation(id) that returns has
\* simulated the earliest-added scenario with that id, and every entry of the result
\* cache is a simulation of the estimates of the earliest-added scenario of its id.
C26_EarliestDuplicateIsSimulated ==
    \A c \in CalcIds : calcs[c].live =>
        LET list == calcs[c].scenarios
            earliest(id) == list[CHOOSE k \in PositionsOf(c, id) :
                                    \A m \in PositionsOf(c, id) : k <= m]
        IN  /\ (last.op = "add_scenario" /\ last.calc = c
                    /\ ValidationErrors(last.input) = <<>>)
                   => /\ last.err = ""
                      /\ list # <<>> /\ list[Len(list)] = MakeScenario(last.input)
            /\ (last.op = "run_simulation" /\ last.calc = c /\ last.err = "")
                   => /\ PositionsOf(c, last.scenario_id) # {}
                      /\ ComputedFrom(last.result[1], earliest(last.scenario_id))
            /\ \A id \in DOMAIN calcs[c].simulation_results :
                  /\ PositionsOf(c, id) # {}
                  /\ ComputedFrom(calcs[c].simulation_results[id], earliest(id))

\* a run_simulation of an id stored twice, with different estimates, has returned
C26_Witness ==
    /\ last.op = "run_simulation" /\ last.err = ""
    /\ Cardinality(PositionsOf(last.calc, last.scenario_id)) = 2
    /\ calcs[last.calc].scenarios[1].description
         # calcs[last.calc].scenarios[2].description
    /\ last.scenario_id \in DOMAIN calcs[last.calc].simulation_results

----------------------------------------------------------------------------
\* C27: the accepted distribution kinds are exactly 'pert' and 'triangular' at every
\* entry point: a --distribution value the command-line parser accepts is accepted
\* by run_simulation, each of the two kinds is accepted by the parser, and the
\* dashboard's FAIRCalculator.run_simulation rejects every other string and samples
\* nothing.
C27_SameKindsAtEveryEntry ==
    /\ (last.op = "cli_quick" /\ last.distribution \in Distributions)
           => last.err # "argument --distribution: invalid choice"
    /\ (last.op = "cli_quick" /\ last.err # "argument --distribution: invalid choice")
           => /\ last.distribution \in Distributions
              /\ last.err # "Invalid distribution type"
    /\ (last.op = "FAIRCalculator.run_simulation"
            /\ last.distribution \notin Distributions)
           => /\ last.err # ""
              /\ last.result = <<>>
              /\ last.drawn = 0

----------------------------------------------------------------------------
----------------------------------------------------------------------------
\* every element of array a lies between lo and hi
Within(a, lo, hi) == \A j \in Idx : lo <= a.cyc[j] /\ a.cyc[j] <= hi

\* C29: every result of a run on a validated scenario has its tef, vulnerability and
\* loss samples between the scenario's low and high estimates (vulnerability hence
\* within [0, 1]), 0 <= lef[i] <= tef[i], and ale[i] between the products of the
\* three low and of the three high estimates; min_loss and the other order and
\* average statistics are not negative.
C29_SamplesWithinEstimates ==
    (last.op = "run_simulation" /\ last.err = "") =>
        LET r == last.result[1]
            s == calcs[last.calc].scenarios[1]
            sorted == Sort(r.ale_samples)
        IN  /\ Within(r.tef_samples, s.tef.low, s.tef.high)
            /\ Within(r.vuln_samples, s.vulnerability.low, s.vulnerability.high)
            /\ Within(r.vuln_samples, 0, VulnDen)
            /\ Within(r.loss_samples, s.loss_magnitude.low, s.loss_magnitude.high)
            /\ \A j \in Idx :
                  /\ 0 <= r.lef_samples.cyc[j]
                  /\ r.lef_samples.cyc[j] <= r.tef_samples.cyc[j] * VulnDen
            /\ Within(r.ale_samples,
                      s.tef.low * s.vulnerability.low * s.loss_magnitude.low,
                      s.tef.high * s.vulnerability.high * s.loss_magnitude.high)
            /\ SortedAt(sorted, 0) >= 0
            /\ ArraySum(r.ale_samples) >= 0
            /\ Median(sorted) >= 0
            /\ \A q \in {10, 25, 50, 75, 90, 95, 99} : Percentile(sorted, q) >= 0

\* a run of a scenario whose three estimates all have low < high has returned samples
\* that differ from one another, with a positive loss among them
C29_Witness ==
    /\ last.op = "run_simulation" /\ last.err = ""
    /\ LET r == last.result[1]
           s == calcs[last.calc].scenarios[1]
       IN  /\ s.tef.low < s.tef.high
           /\ s.vulnerability.low < s.vulnerability.high
           /\ s.loss_magnitude.low < s.loss_magnitude.high
           /\ \E i, j \in Idx : r.tef_samples.cyc[i] # r.tef_samples.cyc[j]
           /\ \E i, j \in Idx : r.ale_samples.cyc[i] # r.ale_samples.cyc[j]
           /\ \E j \in Idx : r.ale_samples.cyc[j] > 0

----------------------------------------------------------------------------
\* the stored results are a simulation of the estimates of scenario s
SimulatedFrom(results, s) ==
    \E g \in 0..(RngPeriod - 1) :
        LET r == FAIRCalculator_run_simulation(g, s.tef, s.vuln, s.loss,
                                               results.iterations,
                                               results.distribution_type)
        IN  r.err = "" /\ r.result[1] = results

\* C30: in the dashboard every entry of simulation_results has its id in the current
\* scenario list, and every listed scenario whose id has an entry finds there the
\* results of a simulation of its own current estimates, stored with itself.
C30_ResultsFollowTheScenarioList ==
    /\ \A id \in DOMAIN session.simulation_results :
          \E k \in 1..Len(session.scenarios) : session.scenarios[k].id = id
    /\ \A k \in 1..Len(session.scenarios) :
          LET s == session.scenarios[k]
          IN  s.id \in DOMAIN session.simulation_results
                  => /\ session.simulation_results[s.id].scenario = s
                     /\ SimulatedFrom(session.simulation_results[s.id].results, s)

====
